---- MODULE Spec2Model ----
(***************************************************************************)
(* Model of the xk6 Prometheus remote-write client (remote_write.go):      *)
(* the label-template compiler, the TemplateSet with its reused scratch    *)
(* buffer, the hand-written protobuf stream encoder, the batch framing,    *)
(* and the generic Store path with the schema-driven marshaller.           *)
(*                                                                         *)
(* Strings and byte slices are sequences of byte values 0..255.  Go slices *)
(* that alias a backing array are a pair [arr, len] into the variable      *)
(* heap, a sequence of arrays; cap(s) is the length of the array.          *)
(***************************************************************************)
EXTENDS Integers, Sequences, FiniteSets, TLC

----------------------------------------------------------------------------
(* Byte strings                                                            *)

\* "${series_id"
SeriesIdOpen == <<36, 123, 115, 101, 114, 105, 101, 115, 95, 105, 100>>

CloseBrace == 125     \* '}'
Slash      == 47      \* '/'
Percent    == 37      \* '%'
Minus      == 45      \* '-'
Plus       == 43      \* '+'
Digit0     == 48      \* '0'

Max(a, b) == IF a > b THEN a ELSE b

\* s[from:to] of Go, 0-based, half open
Slice(s, from, to) == SubSeq(s, from + 1, to)

\* s[from:] of Go
SliceFrom(s, from) == SubSeq(s, from + 1, Len(s))

IsPrefixAt(s, sub, i) ==
    /\ i + Len(sub) <= Len(s)
    /\ \A k \in 1..Len(sub) : s[i + k] = sub[k]

\* strings.Index: 0-based index of the first occurrence of sub in s, or -1
Index(s, sub) ==
    LET hits == {i \in 0..Len(s) : IsPrefixAt(s, sub, i)}
    IN  IF hits = {} THEN -1
        ELSE CHOOSE i \in hits : \A j \in hits : i <= j

\* Go's < on strings: byte-wise lexicographic order
RECURSIVE StrLess(_, _)
StrLess(a, b) ==
    IF b = <<>> THEN FALSE
    ELSE IF a = <<>> THEN TRUE
    ELSE IF a[1] # b[1] THEN a[1] < b[1]
    ELSE StrLess(Tail(a), Tail(b))

----------------------------------------------------------------------------
(* Integer arithmetic of Go                                                *)

Abs(x) == IF x < 0 THEN -x ELSE x

\* Go's integer division truncates toward zero
GoDiv(a, b) ==
    IF (a >= 0) = (b > 0) THEN Abs(a) \div Abs(b) ELSE -(Abs(a) \div Abs(b))

\* Go's remainder has the sign of the dividend
GoMod(a, b) == a - b * GoDiv(a, b)

RECURSIVE DecDigits(_)
DecDigits(n) ==
    IF n < 10 THEN <<Digit0 + n>>
    ELSE Append(DecDigits(n \div 10), Digit0 + (n % 10))

\* strconv.AppendInt(nil, v, 10) / strconv.Itoa(v)
FormatInt(v) == IF v < 0 THEN <<Minus>> \o DecDigits(-v) ELSE DecDigits(v)

IsDigit(c) == c >= Digit0 /\ c <= Digit0 + 9

RECURSIVE DigitsValue(_)
DigitsValue(s) ==
    IF s = <<>> THEN 0
    ELSE 10 * DigitsValue(SubSeq(s, 1, Len(s) - 1)) + (s[Len(s)] - Digit0)

\* strconv.Atoi: optional sign, then one or more decimal digits
Atoi(s) ==
    LET signed == s # <<>> /\ s[1] \in {Minus, Plus}
        digits == IF signed THEN Tail(s) ELSE s
    IN  IF digits = <<>> \/ \E k \in 1..Len(digits) : ~IsDigit(digits[k])
        THEN [ok |-> FALSE, n |-> 0]
        ELSE [ok |-> TRUE,
              n  |-> IF signed /\ s[1] = Minus THEN -DigitsValue(digits)
                     ELSE DigitsValue(digits)]

----------------------------------------------------------------------------
(* Protobuf wire primitives                                                *)

\* protowire.AppendVarint(nil, uint64(v)) for an int64 v: a negative v is
\* its two's complement, ten groups with the last one equal to 1
RECURSIVE VarintGroups(_, _)
VarintGroups(v, k) ==
    IF k = 10 THEN <<1>>
    ELSE IF v >= 0 /\ v < 128 THEN <<v>>
    ELSE <<(v % 128) + 128>> \o VarintGroups(v \div 128, k + 1)

Varint(v) == VarintGroups(v, 1)


\* A float64 that is an exact dyadic rational num / 2^exp with |num| < 2^20
Float(num, exp) == [num |-> num, exp |-> exp]

RECURSIVE Pow2(_)
Pow2(k) == IF k = 0 THEN 1 ELSE 2 * Pow2(k - 1)

\* position of the highest set bit of a > 0
RECURSIVE TopBit(_)
TopBit(a) == IF a < 2 THEN 0 ELSE 1 + TopBit(a \div 2)

\* binary.LittleEndian.PutUint64(b, math.Float64bits(f)): the eight bytes of
\* the IEEE-754 double, least significant first.  The mantissa of these
\* values fits in its top 20 bits, the low 32 bits are zero.
Float64LE(f) ==
    IF f.num = 0 THEN <<0, 0, 0, 0, 0, 0, 0, 0>>
    ELSE LET a    == Abs(f.num)
             e    == TopBit(a)
             bexp == e - f.exp + 1023
             hi   == (a - Pow2(e)) * Pow2(20 - e)
             sign == IF f.num < 0 THEN 128 ELSE 0
         IN  <<0, 0, 0, 0,
               hi % 256,
               (hi \div 256) % 256,
               (bexp % 16) * 16 + (hi \div 65536),
               sign + (bexp \div 16)>>

\* float64(a) + u * float64(b) for a draw u and small integers a, b: exact
FloatMulAdd(u, b, a) == Float(u.num * b + a * Pow2(u.exp), u.exp)

FloatIsZero(f) == f.num = 0

\* A float64 next to a whole number: int - below * 2^-53, for a whole
\* number int and a count below of a few units of 2^-53
Near(int, below) == [int |-> int, below |-> below]

IsNear(f) == "below" \in DOMAIN f

\* the gap between neighbouring float64 values around int - t * 2^-53, in
\* units of 2^-53: the 53-bit mantissa gives 2^(k-52) in [2^k, 2^(k+1))
UlpUnits(int, t) ==
    IF int = 0 THEN 1
    ELSE IF Pow2(TopBit(Abs(int))) = Abs(int) /\ ((int > 0 /\ t > 0) \/ (int < 0 /\ t < 0))
    THEN Abs(int)
    ELSE 2 * Pow2(TopBit(Abs(int)))

\* t rounded to a multiple of ulp, a tie going to the even multiple
RECURSIVE RoundTiesEven(_, _)
RoundTiesEven(t, ulp) ==
    IF t < 0 THEN -RoundTiesEven(-t, ulp)
    ELSE IF 2 * (t % ulp) < ulp THEN t - (t % ulp)
    ELSE IF 2 * (t % ulp) > ulp THEN t - (t % ulp) + ulp
    ELSE IF (t \div ulp) % 2 = 0 THEN t - (t % ulp)
    ELSE t - (t % ulp) + ulp

\* the float64 nearest to int - t * 2^-53
RoundNear(int, t) == Near(int, RoundTiesEven(t, UlpUnits(int, t)))

\* u * float64(d) for a whole number d, rounded
FloatMulInt(u, d) == RoundNear(u.int * d, u.below * d)

\* p + float64(a) for a whole number a, rounded
FloatAddInt(p, a) == RoundNear(p.int + a, p.below)

\* f < float64(n) and f >= float64(n) for a whole number n
FloatLessInt(f, n) ==
    IF IsNear(f) THEN f.int < n \/ (f.int = n /\ f.below > 0)
    ELSE f.num < n * Pow2(f.exp)

FloatGeqInt(f, n) == ~FloatLessInt(f, n)


----------------------------------------------------------------------------
(* The schema-driven marshaller of prompb (proto3: a scalar field that     *)
(* holds its zero value, and an empty string, is not written)              *)

LenDelim(tag, payload) == <<tag>> \o Varint(Len(payload)) \o payload

RECURSIVE Concat(_)
Concat(ss) == IF ss = <<>> THEN <<>> ELSE Head(ss) \o Concat(Tail(ss))

\* prompb.Label.Marshal
MarshalLabel(l) ==
    (IF Len(l.Name) > 0 THEN LenDelim(10, l.Name) ELSE <<>>)
    \o (IF Len(l.Value) > 0 THEN LenDelim(18, l.Value) ELSE <<>>)

\* prompb.Sample.Marshal
MarshalSample(s) ==
    (IF ~FloatIsZero(s.Value) THEN <<9>> \o Float64LE(s.Value) ELSE <<>>)
    \o (IF s.Timestamp # 0 THEN <<16>> \o Varint(s.Timestamp) ELSE <<>>)

\* prompb.TimeSeries.Marshal
MarshalTimeSeries(ts) ==
    Concat([k \in 1..Len(ts.Labels) |-> LenDelim(10, MarshalLabel(ts.Labels[k]))])
    \o Concat([k \in 1..Len(ts.Samples) |-> LenDelim(18, MarshalSample(ts.Samples[k]))])

\* proto.Marshal(&prompb.WriteRequest{Timeseries: batch})
Marshal(batch) ==
    Concat([k \in 1..Len(batch) |-> LenDelim(10, MarshalTimeSeries(batch[k]))])

----------------------------------------------------------------------------
(* The schema-driven decoder of prompb (proto.Unmarshal): an absent field  *)
(* reads as its zero value; malformed input yields Malformed               *)

Malformed == [ok |-> FALSE]

\* number of bytes of the varint that starts at b[p - n + 1] and has not
\* ended before b[p], 0 when it runs off
RECURSIVE VarintLen(_, _, _)
VarintLen(b, p, n) ==
    IF p > Len(b) THEN 0
    ELSE IF b[p] < 128 THEN n
    ELSE VarintLen(b, p + 1, n + 1)

RECURSIVE FoldGroups(_, _, _, _)
FoldGroups(b, p, k, acc) ==
    IF k = 0 THEN acc
    ELSE FoldGroups(b, p, k - 1, acc * 128 + (b[p + k - 1] % 128))

\* the int64 read from the varint of n bytes at b[p]
VarintValue(b, p, n) ==
    IF n = 10 THEN FoldGroups(b, p, 9, -1) ELSE FoldGroups(b, p, n, 0)

\* the fields of one message from b[p] on as <<number, wire type, value>>,
\* after the fields acc
RECURSIVE Fields(_, _, _)
Fields(b, p, acc) ==
    IF p > Len(b) THEN [ok |-> TRUE, fs |-> acc]
    ELSE IF b[p] >= 128 THEN Malformed
    ELSE
      LET Field(val)   == [num |-> b[p] \div 8, wt |-> b[p] % 8, val |-> val]
          Fixed64      == IF p + 8 > Len(b) THEN Malformed
                          ELSE Fields(b, p + 9, Append(acc, Field(SubSeq(b, p + 1, p + 8))))
          VarintAt(vl) == IF vl = 0 \/ vl > 10 THEN Malformed
                          ELSE Fields(b, p + 1 + vl,
                                      Append(acc, Field(VarintValue(b, p + 1, vl))))
          Bytes(from, n) == IF from + n - 1 > Len(b) THEN Malformed
                            ELSE Fields(b, from + n,
                                        Append(acc, Field(SubSeq(b, from, from + n - 1))))
          BytesAt(vl)  == IF vl = 0 \/ vl > 4 THEN Malformed
                          ELSE Bytes(p + 1 + vl, VarintValue(b, p + 1, vl))
      IN  CASE b[p] % 8 = 1 -> Fixed64
            [] b[p] % 8 = 0 -> VarintAt(VarintLen(b, p + 1, 1))
            [] b[p] % 8 = 2 -> BytesAt(VarintLen(b, p + 1, 1))
            [] OTHER -> Malformed

\* the value of the last field (num, wt) of fs, or dflt
LastField(fs, num, wt, dflt) ==
    LET hits == {k \in 1..Len(fs) : fs[k].num = num /\ fs[k].wt = wt}
    IN  IF hits = {} THEN dflt
        ELSE fs[CHOOSE k \in hits : \A j \in hits : j <= k].val

SelectFields(fs, num, wt) ==
    LET Hit(f) == f.num = num /\ f.wt = wt
    IN  SelectSeq(fs, Hit)

AllOk(rs) == \A k \in 1..Len(rs) : rs[k].ok

\* prompb.Label.Unmarshal
UnmarshalLabel(b) ==
    LET Of(r) == IF ~r.ok THEN Malformed
                 ELSE [ok |-> TRUE,
                       Name  |-> LastField(r.fs, 1, 2, <<>>),
                       Value |-> LastField(r.fs, 2, 2, <<>>)]
    IN  Of(Fields(b, 1, <<>>))

\* prompb.Sample.Unmarshal; Value is the bit pattern of the double
UnmarshalSample(b) ==
    LET Of(r) == IF ~r.ok THEN Malformed
                 ELSE [ok |-> TRUE,
                       Value     |-> LastField(r.fs, 1, 1, <<0, 0, 0, 0, 0, 0, 0, 0>>),
                       Timestamp |-> LastField(r.fs, 2, 0, 0)]
    IN  Of(Fields(b, 1, <<>>))

\* prompb.TimeSeries.Unmarshal
UnmarshalTimeSeries(b) ==
    LET Labels(ls)  == [k \in 1..Len(ls) |-> UnmarshalLabel(ls[k].val)]
        Samples(ss) == [k \in 1..Len(ss) |-> UnmarshalSample(ss[k].val)]
        Build(L, S) == IF AllOk(L) /\ AllOk(S)
                       THEN [ok |-> TRUE, Labels |-> L, Samples |-> S]
                       ELSE Malformed
        Of(r) == IF ~r.ok THEN Malformed
                 ELSE Build(Labels(SelectFields(r.fs, 1, 2)),
                            Samples(SelectFields(r.fs, 2, 2)))
    IN  Of(Fields(b, 1, <<>>))

\* proto.Unmarshal(b, &prompb.WriteRequest{})
Unmarshal(b) ==
    LET Series(ts) == [k \in 1..Len(ts) |-> UnmarshalTimeSeries(ts[k].val)]
        Build(T)   == IF AllOk(T) THEN [ok |-> TRUE, Timeseries |-> T] ELSE Malformed
        Of(r) == IF ~r.ok THEN Malformed ELSE Build(Series(SelectFields(r.fs, 1, 2)))
    IN  Of(Fields(b, 1, <<>>))

----------------------------------------------------------------------------
(* Template compiler                                                       *)

NilSlice == [isNil |-> TRUE, b |-> <<>>]

NoGenerator ==
    [kind |-> "none", template |-> <<>>, i |-> 0, end |-> 0, d |-> 0,
     possibleValues |-> <<>>, memoize |-> NilSlice, memoizeValue |-> 0]

\* newIdentityLabelGenerator(t)
newIdentityLabelGenerator(t) ==
    [NoGenerator EXCEPT !.kind = "identity", !.template = t]

\* the table filled from 1 instead of 0
PossibleValuesShifted(template, i, end, d) ==
    [j1 \in 1..d |->
        Slice(template, 0, i) \o FormatInt(j1) \o SliceFrom(template, i + end + 1)]

\* the table the '%' form builds at compile time, for j in 0..d-1
PossibleValues(template, i, end, d) ==
    [j1 \in 1..d |->
        Slice(template, 0, i) \o FormatInt(j1 - 1) \o SliceFrom(template, i + end + 1)]

\* every template taken as literal text
compileTemplateLenient(template) ==
    [fault |-> FALSE, err |-> "", gen |-> newIdentityLabelGenerator(template)]

\* compileTemplate(template): err = "" is a nil error; fault is a run-time
\* panic (index out of range, negative make length)
compileTemplate(template) ==
    LET Ok(g)   == [fault |-> FALSE, err |-> "", gen |-> g]
        Err(e)  == [fault |-> FALSE, err |-> e, gen |-> NoGenerator]
        Panic   == [fault |-> TRUE, err |-> "", gen |-> NoGenerator]
        Mod(i, end, a) ==
            IF ~a.ok THEN Err("can't parse divisor of the module operator")
            ELSE IF a.n < 0 THEN Panic
            ELSE Ok([NoGenerator EXCEPT !.kind = "mod", !.template = template,
                         !.i = i, !.end = end, !.d = a.n,
                         !.possibleValues = PossibleValues(template, i, end, a.n)])
        Div(i, end, a) ==
            IF ~a.ok THEN Err("strconv.Atoi: invalid syntax")
            ELSE Ok([NoGenerator EXCEPT !.kind = "div", !.template = template,
                         !.i = i, !.end = end, !.d = a.n])
        ModTo(i, end) ==
            IF end = -1 THEN Err("no closing bracket in template")
            ELSE Mod(i, end, Atoi(Slice(template, i + Len(SeriesIdOpen) + 1, i + end)))
        DivTo(i, end) ==
            IF end = -1 THEN Err("no closing bracket in template")
            ELSE Div(i, end, Atoi(Slice(template, i + Len(SeriesIdOpen) + 1, i + end)))
        From(i) ==
            IF i = -1 THEN Ok(newIdentityLabelGenerator(template))
            ELSE IF i + Len(SeriesIdOpen) >= Len(template) THEN Panic
            ELSE CASE template[i + Len(SeriesIdOpen) + 1] = CloseBrace ->
                        Ok([NoGenerator EXCEPT !.kind = "id", !.template = template,
                                               !.i = i])
                   [] template[i + Len(SeriesIdOpen) + 1] = Percent ->
                        ModTo(i, Index(SliceFrom(template, i), <<CloseBrace>>))
                   [] template[i + Len(SeriesIdOpen) + 1] = Slash ->
                        DivTo(i, Index(SliceFrom(template, i), <<CloseBrace>>))
                   [] OTHER -> Err("unsupported template")
    IN  From(Index(template, SeriesIdOpen))

\* a memo that is filled once and never compared with the new quotient
DivMemoStale(g, seriesID) ==
    IF g.memoize.isNil
    THEN [g EXCEPT !.memoizeValue = GoDiv(seriesID, g.d),
                   !.memoize = [isNil |-> FALSE,
                                b |-> Slice(g.template, 0, g.i)
                                      \o FormatInt(GoDiv(seriesID, g.d))
                                      \o SliceFrom(g.template, g.i + g.end + 1)]]
    ELSE g

\* the memo of the '/' closure after a call with seriesID
DivMemo(g, seriesID) ==
    LET value == GoDiv(seriesID, g.d)
    IN  IF g.memoize.isNil \/ value # g.memoizeValue
        THEN [g EXCEPT !.memoizeValue = value,
                       !.memoize = [isNil |-> FALSE,
                                    b |-> Slice(g.template, 0, g.i)
                                          \o FormatInt(value)
                                          \o SliceFrom(g.template, g.i + g.end + 1)]]
        ELSE g

\* "${series_id}" written without its closing brace
SeriesIdClosedShort == SeriesIdOpen

\* "${series_id}"
SeriesIdClosed == SeriesIdOpen \o <<CloseBrace>>

\* labelGenerator.AppendByte(b, seriesID): the chunks it appends to b, one
\* per append call, and the generator's state afterwards
AppendByte(g, seriesID) ==
    LET Out(cs, g2) == [fault |-> FALSE, chunks |-> cs, gen |-> g2]
        Panic       == [fault |-> TRUE, chunks |-> <<>>, gen |-> g]
        Pick(r)     == IF r < 0 \/ r >= Len(g.possibleValues) THEN Panic
                       ELSE Out(<<g.possibleValues[r + 1]>>, g)
        Memo(g2)    == Out(<<g2.memoize.b>>, g2)
    IN
    CASE g.kind = "identity" -> Out(<<g.template>>, g)
      [] g.kind = "id" ->
            Out(<<Slice(g.template, 0, g.i),
                  FormatInt(seriesID),
                  SliceFrom(g.template, g.i + Len(SeriesIdClosed))>>, g)
      [] g.kind = "mod" -> IF g.d = 0 THEN Panic ELSE Pick(GoMod(seriesID, g.d))
      [] g.kind = "div" -> IF g.d = 0 THEN Panic ELSE Memo(DivMemo(g, seriesID))
      [] OTHER -> Panic

\* the compiled templates left in the order of the map iteration
SortByNameSkipped(cs) == cs

\* sort.Slice(compiledTemplates, by name): insertion of c into a sorted list
RECURSIVE InsertByName(_, _)
InsertByName(sorted, c) ==
    IF sorted = <<>> THEN <<c>>
    ELSE IF StrLess(c.name, Head(sorted).name) THEN <<c>> \o sorted
    ELSE <<Head(sorted)>> \o InsertByName(Tail(sorted), c)

RECURSIVE SortByName(_)
SortByName(cs) ==
    IF cs = <<>> THEN <<>>
    ELSE InsertByName(SortByName(SubSeq(cs, 1, Len(cs) - 1)), cs[Len(cs)])

\* initial length of the scratch buffer of a TemplateSet
LabelValueSize == 128

NoTemplates == [compiledTemplates |-> <<>>, labelValue |-> [arr |-> 0, len |-> 0]]

\* the templates that do not compile skipped, the others kept
compileLabelTemplatesPartial(labelsTemplate, keys, arr) ==
    LET Good(cs) == SelectSeq([k \in 1..Len(keys) |->
                                  [name |-> keys[k], generator |-> cs[k].gen,
                                   ok |-> ~cs[k].fault /\ cs[k].err = ""]],
                              LAMBDA c : c.ok)
        Done(cs) == [fault |-> FALSE, err |-> "", errTemplate |-> <<>>,
                     template |->
                        [compiledTemplates |->
                            SortByName([k \in 1..Len(Good(cs)) |->
                                          [name |-> Good(cs)[k].name,
                                           generator |-> Good(cs)[k].generator]]),
                         labelValue |-> [arr |-> arr, len |-> LabelValueSize]]]
    IN  Done([k \in 1..Len(keys) |-> compileTemplate(labelsTemplate[keys[k]])])

\* compileLabelTemplates(labelsTemplate), the map being iterated in the
\* order keys; arr is the heap index of the scratch array it allocates
compileLabelTemplates(labelsTemplate, keys, arr) ==
    LET Failed(c)  == c.fault \/ c.err # ""
        Stop(k, c) == [fault |-> c.fault,
                       err   |-> IF c.fault THEN ""
                                 ELSE "error while compiling template, " \o c.err,
                       errTemplate |-> labelsTemplate[keys[k]],
                       template |-> NoTemplates]
        Done(cs)   == [fault |-> FALSE, err |-> "", errTemplate |-> <<>>,
                       template |->
                          [compiledTemplates |->
                              SortByName([k \in 1..Len(keys) |->
                                            [name |-> keys[k], generator |-> cs[k].gen]]),
                           labelValue |-> [arr |-> arr, len |-> LabelValueSize]]]
        First(cs, bad) == IF bad = {} THEN Done(cs)
                          ELSE Stop(CHOOSE k \in bad : \A j \in bad : k <= j,
                                    cs[CHOOSE k \in bad : \A j \in bad : k <= j])
        Of(cs)     == First(cs, {k \in 1..Len(keys) : Failed(cs[k])})
    IN  Of([k \in 1..Len(keys) |-> compileTemplate(labelsTemplate[keys[k]])])

----------------------------------------------------------------------------
(* Slices over the heap                                                    *)

Zeros(n) == [k \in 1..n |-> 0]

\* one scratch array for every TemplateSet
NewArrayShared(h) == 1

\* make([]byte, n): the index in heap h of the array it allocates
NewArray(h) == Len(h) + 1

Cap(h, s) == IF s.arr = 0 THEN 0 ELSE Len(h[s.arr])

\* an append that writes what fits into the capacity and drops the rest
SliceAppendCapped(h, s, bs) ==
    LET kept == IF s.len + Len(bs) <= Cap(h, s) THEN bs ELSE SubSeq(bs, 1, Max(0, Cap(h, s) - s.len))
    IN  IF kept = <<>> THEN [h |-> h, s |-> s]
        ELSE [h |-> [h EXCEPT ![s.arr] =
                        SubSeq(@, 1, s.len) \o kept
                        \o SubSeq(@, s.len + Len(kept) + 1, Len(@))],
              s |-> [s EXCEPT !.len = s.len + Len(kept)]]

\* append(s, bs...): in place while the capacity lasts, else into a new
\* array of at least twice the capacity
SliceAppend(h, s, bs) ==
    IF bs = <<>> THEN [h |-> h, s |-> s]
    ELSE IF s.len + Len(bs) <= Cap(h, s) THEN
        [h |-> [h EXCEPT ![s.arr] =
                    SubSeq(@, 1, s.len) \o bs \o SubSeq(@, s.len + Len(bs) + 1, Len(@))],
         s |-> [s EXCEPT !.len = s.len + Len(bs)]]
    ELSE
        [h |-> Append(h, (IF s.arr = 0 THEN <<>> ELSE SubSeq(h[s.arr], 1, s.len))
                         \o bs
                         \o Zeros(Max(0, 2 * Cap(h, s) - s.len - Len(bs)))),
         s |-> [arr |-> Len(h) + 1, len |-> s.len + Len(bs)]]

RECURSIVE SliceAppendAll(_, _, _)
SliceAppendAll(h, s, chunks) ==
    IF chunks = <<>> THEN [h |-> h, s |-> s]
    ELSE LET Rest(r) == SliceAppendAll(r.h, r.s, Tail(chunks))
         IN  Rest(SliceAppend(h, s, Head(chunks)))

\* the bytes s[from:to]
SliceRead(h, s, from, to) == SubSeq(h[s.arr], from + 1, to)

\* s[at] = ... for consecutive bytes
SliceStore(h, s, at, bs) ==
    [h EXCEPT ![s.arr] =
        SubSeq(@, 1, at) \o bs \o SubSeq(@, at + Len(bs) + 1, Len(@))]

\* a slice left at its length
EmptiedKept(s) == s

\* s[:0]
Emptied(s) == [s EXCEPT !.len = 0]

----------------------------------------------------------------------------
(* labelTemplates.writeFor, one statement per step                         *)

\* the frame of a call writeFor(w, value, seriesID, timestamp)
NewFrame(value, seriesID, timestamp) ==
    [pc |-> "L439", w |-> <<>>, labelValue |-> [arr |-> 0, len |-> 0],
     k |-> 1, n1 |-> 0, n2 |-> 0, n3 |-> 0, n |-> 0,
     value |-> value, seriesID |-> seriesID, timestamp |-> timestamp]

Running(f) == f.pc \notin {"done", "fault"}

\* a scratch slice of the call's own, empty at first
ScratchCopy(T) == [arr |-> 0, len |-> 0]

\* labelValue := template.labelValue[:]
ScratchOf(T) == T.labelValue

\* one statement of writeFor on heap h, TemplateSet T and frame f
writeForStep(h, T, f) ==
    LET lv  == f.labelValue
        ct  == T.compiledTemplates[f.k]
        R(h2, T2, f2) == [h |-> h2, T |-> T2, f |-> f2]
        Local(f2)     == R(h, T, f2)
        Write(bs, pc) == R(h, T, [f EXCEPT !.w = @ \o bs, !.pc = pc])
        Store(at, bs, pc) == R(SliceStore(h, lv, at, bs), T, [f EXCEPT !.pc = pc])
        \* labelValue = append(labelValue, bs...); n<nf> := len(labelValue)
        Appended(r, nf, pc) ==
            R(r.h, T, [f EXCEPT !.labelValue = r.s,
                                !.n1 = IF nf = 1 THEN r.s.len ELSE @,
                                !.n2 = IF nf = 2 THEN r.s.len ELSE @,
                                !.n3 = IF nf = 3 THEN r.s.len ELSE @,
                                !.pc = pc])
        App(bs, nf, pc) == Appended(SliceAppend(h, lv, bs), nf, pc)
        Generated(g, r) ==
            R(r.h, [T EXCEPT !.compiledTemplates[f.k].generator = g.gen],
              [f EXCEPT !.labelValue = r.s, !.n2 = r.s.len, !.pc = "L450"])
        Generate(g) == IF g.fault THEN Local([f EXCEPT !.pc = "fault"])
                       ELSE Generated(g, SliceAppendAll(h, lv, g.chunks))
    IN
    CASE f.pc = "L439" -> Local([f EXCEPT !.labelValue = ScratchOf(T), !.k = 1,
                                          !.pc = "L440"])
      [] f.pc = "L440" -> Local([f EXCEPT !.pc = IF f.k <= Len(T.compiledTemplates)
                                                 THEN "L441" ELSE "L466"])
      [] f.pc = "L441" -> Local([f EXCEPT !.labelValue = Emptied(@), !.pc = "L444"])
      [] f.pc = "L444" -> Write(<<10>>, "L446")
      [] f.pc = "L446" -> App(Varint(Len(ct.name)), 1, "L448")
      [] f.pc = "L448" -> Generate(AppendByte(ct.generator, f.seriesID))
      [] f.pc = "L450" -> App(Varint(f.n2 - f.n1), 3, "L454")
      [] f.pc = "L454" -> App(Varint(f.n3 + 1 + 1 + Len(ct.name)), 0, "L455")
      [] f.pc = "L455" -> Write(SliceRead(h, lv, f.n3, lv.len), "L457")
      [] f.pc = "L457" -> Write(<<10>>, "L458")
      [] f.pc = "L458" -> Write(SliceRead(h, lv, 0, f.n1), "L459")
      [] f.pc = "L459" -> Write(ct.name, "L461")
      [] f.pc = "L461" -> Write(<<18>>, "L462")
      [] f.pc = "L462" -> Write(SliceRead(h, lv, f.n2, f.n3), "L463")
      [] f.pc = "L463" ->
            Local([f EXCEPT !.w = @ \o SliceRead(h, lv, f.n1, f.n2),
                            !.k = @ + 1, !.pc = "L440"])
      [] f.pc = "L466" ->
            IF Cap(h, lv) < 10 THEN Local([f EXCEPT !.pc = "fault"])
            ELSE Local([f EXCEPT !.labelValue.len = 10, !.pc = "L467"])
      [] f.pc = "L467" -> Store(0, <<9>>, "L468")
      [] f.pc = "L468" -> Store(1, Float64LE(f.value), "L469")
      [] f.pc = "L469" -> Store(9, <<16>>, "L471")
      [] f.pc = "L471" -> App(Varint(f.timestamp), 0, "L473")
      [] f.pc = "L473" ->
            IF Cap(h, lv) < lv.len + 1 THEN Local([f EXCEPT !.pc = "fault"])
            ELSE Local([f EXCEPT !.n = lv.len, !.labelValue.len = lv.len + 1,
                                 !.pc = "L475"])
      [] f.pc = "L475" -> Store(f.n, <<18>>, "L476")
      [] f.pc = "L476" -> App(Varint(f.n), 0, "L477")
      [] f.pc = "L477" -> Write(SliceRead(h, lv, f.n, lv.len), "L478")
      [] f.pc = "L478" -> Write(SliceRead(h, lv, 0, f.n), "L479")
      [] f.pc = "L479" -> R(h, [T EXCEPT !.labelValue = lv], [f EXCEPT !.pc = "done"])

\* a call of writeFor run to its end without interruption
RECURSIVE writeForRun(_, _, _)
writeForRun(h, T, f) ==
    IF ~Running(f) THEN [h |-> h, T |-> T, f |-> f]
    ELSE LET Go(r) == writeForRun(r.h, r.T, r.f)
         IN  Go(writeForStep(h, T, f))

\* a writeFor that takes timestamp 0 to mean a reading of the clock
writeForStamped(h, T, value, seriesID, timestamp) ==
    writeForRun(h, T, NewFrame(value, seriesID, IF timestamp = 0 THEN 1 ELSE timestamp))

writeFor(h, T, value, seriesID, timestamp) ==
    writeForRun(h, T, NewFrame(value, seriesID, timestamp))

----------------------------------------------------------------------------
(* Batch assembly                                                          *)

\* valueBetween on a build that contracts the multiplication and the
\* addition into one fused operation, rounded once
valueBetweenFused(u, minVal, maxVal) ==
    IF IsNear(u) THEN RoundNear(u.int * (maxVal - minVal) + minVal, u.below * (maxVal - minVal))
    ELSE FloatMulAdd(u, maxVal - minVal, minVal)

\* valueBetween(r, minVal, maxVal) for the draw u of r.Float64(): the
\* product is rounded, then the sum; both are exact for the draws 0 and 1/2
valueBetween(u, minVal, maxVal) ==
    IF IsNear(u) THEN FloatAddInt(FloatMulInt(u, maxVal - minVal), minVal)
    ELSE FloatMulAdd(u, maxVal - minVal, minVal)

\* one series of the batch: writeFor into bigB, then tag 0x0a, the length
\* of bigB as a varint and bigB itself onto buf
writeSeries(g, value, seriesID, timestamp) ==
    LET Framed(r) ==
            IF r.f.pc = "fault" THEN [fault |-> TRUE, h |-> r.h, T |-> r.T, buf |-> g.buf]
            ELSE [fault |-> FALSE, h |-> r.h, T |-> r.T,
                  buf |-> g.buf \o <<10>> \o Varint(Len(r.f.w)) \o r.f.w]
    IN  Framed(writeFor(g.h, g.T, value, seriesID, timestamp))

\* the loop of generateFromPrecompiledTemplates from seriesID on; draws
\* holds the draws of r.Float64() still to be made
RECURSIVE generateLoop(_, _, _, _, _, _, _)
generateLoop(g, draws, minValue, maxValue, timestamp, seriesID, maxSeriesID) ==
    IF g.fault \/ seriesID >= maxSeriesID THEN g
    ELSE generateLoop(writeSeries(g, valueBetween(Head(draws), minValue, maxValue),
                                  seriesID, timestamp),
                      Tail(draws), minValue, maxValue, timestamp,
                      seriesID + 1, maxSeriesID)

\* number of draws of r.Float64() a call makes
DrawCount(minSeriesID, maxSeriesID) == Max(1, maxSeriesID - minSeriesID)

\* the loop stopped one series early
generateFromPrecompiledTemplatesShort(h, T, draws, minValue, maxValue, timestamp, minSeriesID, maxSeriesID) ==
    generateLoop(writeSeries([fault |-> FALSE, h |-> h, T |-> T, buf |-> <<>>],
                             valueBetween(Head(draws), minValue, maxValue),
                             minSeriesID, timestamp),
                 Tail(draws), minValue, maxValue, timestamp,
                 minSeriesID + 1, maxSeriesID - 1)

\* generateFromPrecompiledTemplates(r, minValue, maxValue, timestamp,
\* minSeriesID, maxSeriesID, template); fault is a panic, buf the bytes
\* written until then
generateFromPrecompiledTemplates(h, T, draws, minValue, maxValue, timestamp, minSeriesID, maxSeriesID) ==
    LET Grown(g) ==
            IF g.fault THEN g
            ELSE IF (Len(g.buf) + 2) * (maxSeriesID - minSeriesID) < 0
            THEN [g EXCEPT !.fault = TRUE]
            ELSE generateLoop(g, Tail(draws), minValue, maxValue, timestamp,
                              minSeriesID + 1, maxSeriesID)
    IN  Grown(writeSeries([fault |-> FALSE, h |-> h, T |-> T, buf |-> <<>>],
                          valueBetween(Head(draws), minValue, maxValue),
                          minSeriesID, timestamp))

----------------------------------------------------------------------------
(* Generic Store path                                                      *)

\* a conversion that copies every timestamp as it is
FromTimeseriesCopied(ts, nows) ==
    [Labels  |-> [k \in 1..Len(ts.Labels) |->
                    [Name |-> ts.Labels[k].Name, Value |-> ts.Labels[k].Value]],
     Samples |-> [j \in 1..Len(ts.Samples) |->
                    [Value     |-> ts.Samples[j].Value,
                     Timestamp |-> ts.Samples[j].Timestamp]]]

\* FromTimeseriesToPrometheusTimeseries(ts); nows[j] is what time.Now() reads,
\* in milliseconds, when sample j is converted
FromTimeseriesToPrometheusTimeseries(ts, nows) ==
    [Labels  |-> [k \in 1..Len(ts.Labels) |->
                    [Name |-> ts.Labels[k].Name, Value |-> ts.Labels[k].Value]],
     Samples |-> [j \in 1..Len(ts.Samples) |->
                    [Value     |-> ts.Samples[j].Value,
                     Timestamp |-> IF ts.Samples[j].Timestamp = 0 THEN nows[j]
                                   ELSE ts.Samples[j].Timestamp]]]

\* number of samples in the series before series k
RECURSIVE SamplesBefore(_, _)
SamplesBefore(ts, k) ==
    IF k <= 1 THEN 0 ELSE SamplesBefore(ts, k - 1) + Len(ts[k - 1].Samples)

SampleCount(ts) == SamplesBefore(ts, Len(ts) + 1)

\* Client.Store(ts) up to the compression: the batch it converts and the
\* bytes Client.store marshals for the request; clock[n] is the reading of
\* time.Now() at the n-th sample of the call
Store(ts, clock) ==
    LET batch == [k \in 1..Len(ts) |->
                    FromTimeseriesToPrometheusTimeseries(ts[k],
                        [j \in 1..Len(ts[k].Samples) |-> clock[SamplesBefore(ts, k) + j]])]
    IN  [batch |-> batch, data |-> Marshal(batch)]

----------------------------------------------------------------------------
(* Synthetic series of StoreGenerated                                      *)

\* "__name__"
MetricNameLabel == <<95, 95, 110, 97, 109, 101, 95, 95>>
\* "series_id"
SeriesIdLabel == SubSeq(SeriesIdOpen, 3, Len(SeriesIdOpen))
\* "k6_generated_metric_"
MetricPrefix == <<107, 54, 95, 103, 101, 110, 101, 114, 97, 116, 101, 100, 95, 109, 101, 116, 114, 105, 99, 95>>
\* "cardinality_1e"
CardinalityPrefix == <<99, 97, 114, 100, 105, 110, 97, 108, 105, 116, 121, 95, 49, 101>>

\* math.Pow(10, x) for a whole x >= 0
RECURSIVE Pow10(_)
Pow10(x) == IF x = 0 THEN 1 ELSE 10 * Pow10(x - 1)

\* int64(math.Log10(float64(n))) for n >= 1 that is not a power of ten
Log10Floor(n) == Len(DecDigits(n)) - 1

\* generateCardinalityLabels(totalSeries, seriesID) for totalSeries >= 1
generateCardinalityLabels(totalSeries, seriesID) ==
    [x \in 1..Log10Floor(totalSeries) |->
        [Name  |-> CardinalityPrefix \o FormatInt(x),
         Value |-> FormatInt(GoDiv(seriesID, Pow10(x)))]]

\* a batch whose series IDs start one too high
generatedBatchFromOne(totalSeries, batchSize, batch, draws, timestamp) ==
    [i \in 1..batchSize |->
        [Labels  |-> generateCardinalityLabels(totalSeries, batchSize * (batch - 1) + i)
                     \o <<[Name  |-> MetricNameLabel,
                           Value |-> MetricPrefix \o FormatInt(batchSize * (batch - 1) + i)],
                          [Name  |-> SeriesIdLabel,
                           Value |-> FormatInt(batchSize * (batch - 1) + i)]>>,
         Samples |-> <<[Value |-> FloatMulAdd(draws[i], 100, 0), Timestamp |-> timestamp]>>]]

\* the series generateSeries builds once its checks have passed; draws are
\* the draws of r.Float64(), timestamp the reading of the clock
generatedBatch(totalSeries, batchSize, batch, draws, timestamp) ==
    [i \in 1..batchSize |->
        [Labels  |-> generateCardinalityLabels(totalSeries, batchSize * (batch - 1) + i - 1)
                     \o <<[Name  |-> MetricNameLabel,
                           Value |-> MetricPrefix
                                     \o FormatInt(batchSize * (batch - 1) + i - 1)],
                          [Name  |-> SeriesIdLabel,
                           Value |-> FormatInt(batchSize * (batch - 1) + i - 1)]>>,
         Samples |-> <<[Value |-> FloatMulAdd(draws[i], 100, 0), Timestamp |-> timestamp]>>]]

\* a generateSeries that tests the batch number before anything else
generateSeriesBatchFirst(totalSeries, batches, batchSize, batch, draws, timestamp) ==
    IF batch > batches
    THEN [fault |-> FALSE, err |-> "batch must be in the range of batches", series |-> <<>>]
    ELSE [fault |-> FALSE, err |-> "", series |-> <<>>]

\* generateSeries(totalSeries, batches, batchSize, batch) for
\* totalSeries >= 0; fault is a panic (division by zero, make with a
\* negative length)
generateSeries(totalSeries, batches, batchSize, batch, draws, timestamp) ==
    IF totalSeries = 0 THEN [fault |-> FALSE, err |-> "", series |-> <<>>]
    ELSE IF batch > batches
    THEN [fault |-> FALSE, err |-> "batch must be in the range of batches", series |-> <<>>]
    ELSE IF batches = 0 THEN [fault |-> TRUE, err |-> "", series |-> <<>>]
    ELSE IF GoDiv(totalSeries, batches) # batchSize
    THEN [fault |-> FALSE,
          err |-> "total_series must divide evenly into batches of size batch_size",
          series |-> <<>>]
    ELSE IF batchSize < 0 THEN [fault |-> TRUE, err |-> "", series |-> <<>>]
    ELSE [fault |-> FALSE, err |-> "",
          series |-> generatedBatch(totalSeries, batchSize, batch, draws, timestamp)]

----------------------------------------------------------------------------
(* Compression and transport                                               *)

\* snappy.Encode(dst, src): the block format is not spelled out; the result
\* is a value of its own kind from which a decoder recovers src
snappyEncode(src) == [snappy |-> src]

\* str2duration.ParseDuration on the texts a configuration carries here
ParseDuration(s) == [ok |-> s \in {"10s", "500ms"}]

\* url.Parse, and the same parse inside http.NewRequestWithContext, on the
\* texts a configuration carries here
UrlParse(s) == [ok |-> s # "http://[::1"]

\* what httpext.MakeRequest may return: a response and no error, or an error
MakeRequestOutcomes ==
    { [err |-> "", status |-> 200],
      [err |-> "", status |-> 500],
      [err |-> "request timeout", status |-> 0],
      [err |-> "connection refused", status |-> 0] }

NoResponse == [status |-> 0]

\* the orders in which a map with key set S may be iterated
KeyOrders(S) ==
    {q \in [1..Cardinality(S) -> S] : \A i, j \in 1..Cardinality(S) : i # j => q[i] # q[j]}

\* the keys of S in ascending byte-wise order
SortedKeys(S) ==
    CHOOSE q \in KeyOrders(S) : \A i \in 1..(Cardinality(S) - 1) : StrLess(q[i], q[i + 1])

\* the header names send writes, as bytes
\* "Content-Encoding"
HdrContentEncoding ==
    <<67, 111, 110, 116, 101, 110, 116, 45,
      69, 110, 99, 111, 100, 105, 110, 103>>

\* "Content-Type"
HdrContentType == <<67, 111, 110, 116, 101, 110, 116, 45, 84, 121, 112, 101>>

\* "User-Agent"
HdrUserAgent == <<85, 115, 101, 114, 45, 65, 103, 101, 110, 116>>

\* "X-Prometheus-Remote-Write-Version"
HdrRemoteWriteVersion ==
    <<88, 45, 80, 114, 111, 109, 101, 116, 104, 101, 117, 115, 45, 82, 101, 109,
      111, 116, 101, 45, 87, 114, 105, 116, 101, 45, 86, 101, 114, 115, 105, 111, 110>>

\* "X-Scope-Orgid"
HdrScopeOrgid == <<88, 45, 83, 99, 111, 112, 101, 45, 79, 114, 103, 105, 100>>

\* "Host"
HdrHost == <<72, 111, 115, 116>>

\* header names as a script may write them
\* "content-encoding"
KeyContentEncodingLower ==
    <<99, 111, 110, 116, 101, 110, 116, 45,
      101, 110, 99, 111, 100, 105, 110, 103>>

\* "x-prometheus-remote-write-version"
KeyVersionLower ==
    <<120, 45, 112, 114, 111, 109, 101, 116, 104, 101, 117, 115, 45, 114, 101, 109,
      111, 116, 101, 45, 119, 114, 105, 116, 101, 45, 118, 101, 114, 115, 105, 111, 110>>

\* "X-Custom"
KeyCustom == <<88, 45, 67, 117, 115, 116, 111, 109>>

\* the bytes a header name may be made of (a token of RFC 7230)
IsTokenByte(c) ==
    \/ (c >= 48 /\ c <= 57)
    \/ (c >= 65 /\ c <= 90)
    \/ (c >= 97 /\ c <= 122)
    \/ c \in {33, 35, 36, 37, 38, 39, 42, 43, 45, 46, 94, 95, 96, 124, 126}

\* the letters of name in the case of a canonical key: upper at the start
\* and after a hyphen, lower elsewhere
RECURSIVE CanonicalCase(_, _)
CanonicalCase(name, upper) ==
    IF name = <<>> THEN <<>>
    ELSE LET c == Head(name)
             d == IF upper /\ c >= 97 /\ c <= 122 THEN c - 32
                  ELSE IF ~upper /\ c >= 65 /\ c <= 90 THEN c + 32
                  ELSE c
         IN  <<d>> \o CanonicalCase(Tail(name), d = 45)

\* textproto.CanonicalMIMEHeaderKey, which Header.Set and Header.Add apply
\* to the name
CanonicalMIMEHeaderKey(name) ==
    IF \A k \in 1..Len(name) : IsTokenByte(name[k]) THEN CanonicalCase(name, TRUE)
    ELSE name

\* r.Header.Set(name, value)
HeaderSet(h, name, value) ==
    [k \in DOMAIN h \cup {CanonicalMIMEHeaderKey(name)} |->
        IF k = CanonicalMIMEHeaderKey(name) THEN <<value>> ELSE h[k]]

\* r.Header.Add(name, value)
HeaderAdd(h, name, value) ==
    [k \in DOMAIN h \cup {CanonicalMIMEHeaderKey(name)} |->
        IF k # CanonicalMIMEHeaderKey(name) THEN h[k]
        ELSE IF k \in DOMAIN h THEN Append(h[k], value) ELSE <<value>>]

\* the loop over c.cfg.Headers: names are the keys still to be set
RECURSIVE HeaderSetAll(_, _, _)
HeaderSetAll(h, headers, names) ==
    IF names = <<>> THEN h
    ELSE HeaderSetAll(HeaderSet(h, Head(names), headers[Head(names)]), headers,
                      Tail(names))

\* the host of the URLs a configuration carries here
UrlHost(s) == IF s = "http://mimir/push" THEN "mimir" ELSE ""

\* the request send hands to httpext.MakeRequest: the caller's headers are
\* set first, in an order of the map that changes nothing while no two of
\* them have the same canonical name, then the fixed ones
NewRequest(cfg, req) ==
    LET fixed(h) ==
            HeaderSet(HeaderSet(HeaderSet(HeaderAdd(h, HdrContentEncoding, "snappy"),
                                          HdrContentType, "application/x-protobuf"),
                                HdrUserAgent, cfg.UserAgent),
                      HdrRemoteWriteVersion, "0.0.2")
        tenant(h) == IF cfg.TenantName # "" THEN HeaderSet(h, HdrScopeOrgid, cfg.TenantName)
                     ELSE h
        called(h) == HeaderSetAll(h, cfg.Headers, SortedKeys(DOMAIN cfg.Headers))
    IN  [Body |-> req,
         Header |-> tenant(fixed(called(<<>>))),
         Host |-> IF HdrHost \in DOMAIN cfg.Headers THEN cfg.Headers[HdrHost]
                  ELSE UrlHost(cfg.Url)]

\* a send that makes the request again when it failed
sendAgain(cfg, req, outcome) ==
    IF ~UrlParse(cfg.Url).ok
    THEN [err |-> "parse error", res |-> NoResponse, requests |-> <<>>]
    ELSE IF ~ParseDuration(cfg.Timeout).ok
    THEN [err |-> "invalid duration", res |-> NoResponse, requests |-> <<>>]
    ELSE IF outcome.err # ""
    THEN [err |-> outcome.err, res |-> NoResponse,
          requests |-> <<NewRequest(cfg, req), NewRequest(cfg, req)>>]
    ELSE [err |-> "", res |-> [status |-> outcome.status], requests |-> <<NewRequest(cfg, req)>>]

\* Client.send(state, req); outcome is what httpext.MakeRequest returns,
\* requests the calls of httpext.MakeRequest it made
send(cfg, req, outcome) ==
    IF ~UrlParse(cfg.Url).ok
    THEN [err |-> "parse error", res |-> NoResponse, requests |-> <<>>]
    ELSE IF ~ParseDuration(cfg.Timeout).ok
    THEN [err |-> "invalid duration", res |-> NoResponse, requests |-> <<>>]
    ELSE IF outcome.err # ""
    THEN [err |-> outcome.err, res |-> NoResponse, requests |-> <<NewRequest(cfg, req)>>]
    ELSE [err |-> "", res |-> [status |-> outcome.status], requests |-> <<NewRequest(cfg, req)>>]

NoPayload == [none |-> TRUE]

\* the tail shared by Client.store and StoreFromPrecompiledTemplates: the
\* bytes are compressed and sent, and an error of send is wrapped
compressAndSend(cfg, data, outcome) ==
    LET Wrapped(s) ==
            [fault |-> FALSE,
             err |-> IF s.err # "" THEN "remote-write request failed: " \o s.err ELSE "",
             payload |-> snappyEncode(data), requests |-> s.requests,
             res |-> IF s.err # "" THEN NoResponse ELSE s.res]
    IN  Wrapped(send(cfg, snappyEncode(data), outcome))

StateIsNil ==
    [fault |-> FALSE, err |-> "State is nil", payload |-> NoPayload, requests |-> <<>>,
     res |-> NoResponse]

\* Client.store(batch) on the VU state vu ("nil" or "set")
store(vu, cfg, batch, outcome) ==
    IF vu = "nil" THEN StateIsNil ELSE compressAndSend(cfg, Marshal(batch), outcome)

\* Client.StoreFromPrecompiledTemplates on the VU state vu, heap h and
\* TemplateSet T: nothing is generated when the state is nil
storeFromPrecompiled(vu, cfg, h, T, draws, minValue, maxValue, timestamp, minSeriesID, maxSeriesID, outcome) ==
    LET Kept(r, hh, TT) == r @@ [h |-> hh, T |-> TT]
        Sent(g) == IF g.fault
                   THEN Kept([StateIsNil EXCEPT !.fault = TRUE, !.err = ""], g.h, g.T)
                   ELSE Kept(compressAndSend(cfg, g.buf, outcome), g.h, g.T)
    IN  IF vu = "nil" THEN Kept(StateIsNil, h, T)
        ELSE Sent(generateFromPrecompiledTemplates(h, T, draws, minValue, maxValue,
                                                   timestamp, minSeriesID, maxSeriesID))

\* Client.StoreFromTemplates: the map is compiled first, in the iteration
\* order keys, into a TemplateSet of the call's own
storeFromTemplates(vu, cfg, h, labelsTemplate, keys, draws, minValue, maxValue, timestamp, minSeriesID, maxSeriesID, outcome) ==
    LET Compiled(c) ==
            IF c.fault THEN [StateIsNil EXCEPT !.fault = TRUE, !.err = ""]
            ELSE IF c.err # "" THEN [StateIsNil EXCEPT !.err = c.err]
            ELSE storeFromPrecompiled(vu, cfg, Append(h, Zeros(LabelValueSize)),
                                      c.template, draws, minValue, maxValue, timestamp,
                                      minSeriesID, maxSeriesID, outcome)
    IN  Compiled(compileLabelTemplates(labelsTemplate, keys, NewArray(h)))

\* Client.StoreGenerated: generateSeries, then Client.Store of its result
storeGenerated(vu, cfg, totalSeries, batches, batchSize, batch, draws, timestamp, outcome) ==
    LET Stored(g) ==
            IF g.fault THEN [StateIsNil EXCEPT !.fault = TRUE, !.err = ""] @@ [generated |-> g]
            ELSE IF g.err # "" THEN [StateIsNil EXCEPT !.err = g.err] @@ [generated |-> g]
            ELSE store(vu, cfg,
                       [k \in 1..Len(g.series) |->
                           FromTimeseriesToPrometheusTimeseries(g.series[k],
                               [j \in 1..Len(g.series[k].Samples) |-> timestamp])],
                       outcome) @@ [generated |-> g]
    IN  Stored(generateSeries(totalSeries, batches, batchSize, batch, draws, timestamp))

----------------------------------------------------------------------------
(* Inputs: label templates described by their shape                        *)

\* pre ++ "${series_id" ++ <op> ++ lead ++ decimal(n) ++ "}" ++ post; op is
\* "none" (pre alone), "id", "div", "mod", or "bad" (pre is the whole text
\* of a template that does not compile)
Shape(pre, op, lead, n, post) ==
    [pre |-> pre, op |-> op, lead |-> lead, n |-> n, post |-> post]

TemplateText(sh) ==
    CASE sh.op \in {"none", "bad"} -> sh.pre
      [] sh.op = "id"   -> sh.pre \o SeriesIdOpen \o <<CloseBrace>> \o sh.post
      [] sh.op = "div"  -> sh.pre \o SeriesIdOpen \o <<Slash>> \o sh.lead
                           \o FormatInt(sh.n) \o <<CloseBrace>> \o sh.post
      [] sh.op = "mod"  -> sh.pre \o SeriesIdOpen \o <<Percent>> \o sh.lead
                           \o FormatInt(sh.n) \o <<CloseBrace>> \o sh.post

\* the label value a template of shape sh stands for at seriesID
ShapeValue(sh, seriesID) ==
    CASE sh.op = "none" -> sh.pre
      [] sh.op = "id"   -> sh.pre \o FormatInt(seriesID) \o sh.post
      [] sh.op = "div"  -> sh.pre \o FormatInt(GoDiv(seriesID, sh.n)) \o sh.post
      [] sh.op = "mod"  -> sh.pre \o FormatInt(seriesID % sh.n) \o sh.post

NameA  == <<97>>
NameAB == <<97, 98>>
NameB  == <<98>>

ShLit   == Shape(<<118>>, "none", <<>>, 0, <<>>)
ShEmpty == Shape(<<>>, "none", <<>>, 0, <<>>)
ShId    == Shape(<<120>>, "id", <<>>, 0, <<121>>)
ShIdId  == Shape(<<>>, "id", <<>>, 0, SeriesIdOpen \o <<CloseBrace>>)
ShDiv2  == Shape(<<120>>, "div", <<>>, 2, <<>>)
ShDivM2 == Shape(<<>>, "div", <<>>, -2, <<121>>)
ShMod3  == Shape(<<>>, "mod", <<>>, 3, <<121>>)
ShMod2  == Shape(<<120>>, "mod", <<Plus>>, 2, <<>>)
ShDiv0  == Shape(<<>>, "div", <<>>, 0, <<>>)
ShMod0  == Shape(<<>>, "mod", <<>>, 0, <<>>)
\* "${series_id"
ShBadOpen    == Shape(SeriesIdOpen, "bad", <<>>, 0, <<>>)
\* "${series_id*6}"
ShBadStar    == Shape(SeriesIdOpen \o <<42, 54, CloseBrace>>, "bad", <<>>, 0, <<>>)
\* "${series_id/6"
ShBadNoClose == Shape(SeriesIdOpen \o <<Slash, 54>>, "bad", <<>>, 0, <<>>)
\* "${series_id%6 y"
ShBadNoCloseMod == Shape(SeriesIdOpen \o <<Percent, 54, 32, 121>>, "bad", <<>>, 0, <<>>)
\* "${series_id/x}"
ShBadDivisor == Shape(SeriesIdOpen \o <<Slash, 120, CloseBrace>>, "bad", <<>>, 0, <<>>)
\* "${series_id%}"
ShBadModulus == Shape(SeriesIdOpen \o <<Percent, CloseBrace>>, "bad", <<>>, 0, <<>>)
\* "${series_id%-1}"
ShBadNegMod  == Shape(SeriesIdOpen \o <<Percent, Minus, 49, CloseBrace>>, "bad", <<>>, 0, <<>>)
\* "x${series_id y"
ShBadSpace   == Shape(<<120>> \o SeriesIdOpen \o <<32, 121>>, "bad", <<>>, 0, <<>>)
\* "}${series_id/6"
ShBadBraceBefore == Shape(<<CloseBrace>> \o SeriesIdOpen \o <<Slash, 54>>, "bad", <<>>, 0, <<>>)
\* "${series_id%2x}"
ShBadModText == Shape(SeriesIdOpen \o <<Percent, 50, 120, CloseBrace>>, "bad", <<>>, 0, <<>>)

\* the label templates a run starts from: label name -> shape
TemplateMaps ==
    { <<>>,
      (NameB :> ShLit),
      (NameB :> ShId),
      (NameA :> ShEmpty),
      (NameA :> ShIdId),
      (NameB :> ShDiv2) @@ (NameA :> ShMod3),
      (NameB :> ShId) @@ (NameA :> ShDivM2) @@ (NameAB :> ShLit),
      (NameA :> ShMod0),
      (NameB :> ShBadStar) @@ (NameA :> ShBadNoClose),
      (NameB :> ShLit) @@ (NameA :> ShBadOpen),
      (NameB :> ShId) @@ (NameA :> ShBadStar) }

\* the explicit time series the templates of shape map sm stand for over
\* [minSeriesID, maxSeriesID), series k carrying the sample values[k]
EquivalentList(sm, values, timestamp, minSeriesID, maxSeriesID) ==
    LET names == SortedKeys(DOMAIN sm)
    IN  [k \in 1..Max(0, maxSeriesID - minSeriesID) |->
            [Labels  |-> [j \in 1..Len(names) |->
                            [Name  |-> names[j],
                             Value |-> ShapeValue(sm[names[j]], minSeriesID + k - 1)]],
             Samples |-> <<[Value |-> values[k], Timestamp |-> timestamp]>>]]

\* bound of the inputs: the longest range of series IDs
MaxBatch == 2

MinSeriesIDs == {-3, 9}
\* <<minValue, maxValue, timestamp>> of a generating call
ValueTimes   == {<<0, 0, 300>>, <<1, 3, 0>>, <<1, 3, 300>>, <<1, 3, -1>>}
\* r.Float64() draws 0 or 1/2
Draws        == {Float(0, 1), Float(1, 1)}
\* time.Now() in milliseconds
Clock        == {1000, 1001}

\* explicit series a script may pass to store()
FixedLists ==
    { <<>>,
      <<[Labels  |-> <<[Name |-> NameB, Value |-> <<118>>],
                       [Name |-> NameA, Value |-> <<>>]>>,
         Samples |-> <<[Value |-> Float(3, 1), Timestamp |-> 0],
                       [Value |-> Float(0, 0), Timestamp |-> 300]>>],
        [Labels  |-> <<[Name |-> NameA, Value |-> <<119>>]>>,
         Samples |-> <<[Value |-> Float(1, 0), Timestamp |-> 0]>>]>> }

\* the label templates of a script that stores through the transport
StoreMaps ==
    { (NameB :> ShId),
      (NameB :> ShDiv2) @@ (NameA :> ShMod3),
      (NameB :> ShId) @@ (NameA :> ShBadStar) }

\* <<totalSeries, batches, batchSize, batch>> of a call of storeGenerated
GeneratedArgs ==
    { <<0, 2, 2, 1>>, <<0, 0, 0, 0>>, <<0, 2, 3, 5>>, <<0, -1, 2, -3>>,
      <<4, 2, 2, 1>>, <<4, 2, 2, 2>>, <<4, 2, 2, 3>>, <<4, 2, 2, 0>>, <<4, 2, 2, -1>>,
      <<5, 2, 2, 1>>, <<4, 3, 2, 1>>, <<4, 2, 1, 1>>, <<4, 0, 2, 0>>, <<4, 0, 2, 1>>,
      <<4, -2, -2, -2>>, <<12, 6, 2, 6>>, <<12, 3, 4, 1>>, <<100, 3, 34, 1>>,
      <<0, 2, 0, 1>> }

\* <<minValue, maxValue, timestamp>> of a generating call that is sent
SentValueTimes == {<<1, 3, 300>>, <<1, 3, 0>>}

----------------------------------------------------------------------------
(* State                                                                   *)

VARIABLES
    labelsTemplate,  \* the label templates of the script: name -> text
    shape,           \* the shape each of them was written from
    iterOrder,       \* the order in which the map was iterated at compile
    status,          \* "new", "compiled", "error" or "panic"
    compileErr,      \* the error compileLabelTemplates returned
    heap,            \* the backing arrays of the scratch slices
    template,        \* the TemplateSet
    gen,             \* the call that generated from the templates
    sto,             \* the call of store()
    cg,              \* a single template and the generator compiled from it
    ev,              \* the last evaluation of that generator
    nev,             \* evaluations made so far
    templates,       \* the TemplateSets of concurrent callers
    uses,            \* the TemplateSet each concurrent caller works on
    frames,          \* the frame of each concurrent caller's writeFor
    vuState,         \* c.vu.State(): "nil" outside a VU's iteration, else "set"
    config,          \* the Config of the Client
    call,            \* the call of a store method made through the transport
    ctor,            \* the construction of the Client
    sample,          \* the last call of valueBetween
    callback,        \* the last call of ResponseCallback
    wf               \* the calls of writeFor made one after the other

vars == <<labelsTemplate, shape, iterOrder, status, compileErr, heap, template,
          gen, sto, cg, ev, nev, templates, uses, frames, vuState, config, call,
          ctor, sample, callback, wf>>

evalVars   == <<cg, ev, nev>>
concVars   == <<templates, uses, frames>>
sendVars   == <<vuState, config, call, ctor>>
pureVars   == <<sample, callback>>

NoGen ==
    [called |-> FALSE, values |-> <<>>, minValue |-> 0, maxValue |-> 0,
     timestamp |-> 0, minSeriesID |-> 0, maxSeriesID |-> 0, fault |-> FALSE,
     buf |-> <<>>]

NoStore == [called |-> FALSE, input |-> <<>>, batch |-> <<>>, data |-> <<>>]

NoCg == [shape |-> ShEmpty, template |-> <<>>, status |-> "idle", err |-> "",
         gen |-> NoGenerator]

NoEv == [called |-> FALSE, seriesID |-> 0, fault |-> FALSE, out |-> <<>>,
         before |-> NoGenerator]

NoCompileErr == [err |-> "", errTemplate |-> <<>>]

ClientIdle ==
    /\ shape = <<>>
    /\ labelsTemplate = <<>>
    /\ iterOrder = <<>>
    /\ status = "idle"
    /\ compileErr = NoCompileErr
    /\ template = NoTemplates
    /\ gen = NoGen
    /\ sto = NoStore

EvalIdle == cg = NoCg /\ ev = NoEv /\ nev = 0

ConcIdle == templates = <<>> /\ uses = <<>> /\ frames = <<>>

NoConfig == [Url |-> "", UserAgent |-> "", Timeout |-> "", TenantName |-> "", Headers |-> <<>>]

NoArgs ==
    [totalSeries |-> 0, batches |-> 0, batchSize |-> 0, batch |-> 0,
     minValue |-> 0, maxValue |-> 0, timestamp |-> 0, minSeriesID |-> 0,
     maxSeriesID |-> 0, labelsTemplate |-> <<>>, ts |-> <<>>]

NoGenerated == [fault |-> FALSE, err |-> "", series |-> <<>>]

NoCall ==
    [op |-> "none", args |-> NoArgs, outcome |-> [err |-> "", status |-> 0],
     fault |-> FALSE, err |-> "", payload |-> NoPayload, requests |-> <<>>,
     res |-> NoResponse, generated |-> NoGenerated]

\* the argument of new Client(...) before there is one
NoArg ==
    [object |-> FALSE, url |-> "", user_agent |-> "", timeout |-> "", tenant_name |-> "",
     headers |-> <<>>]

NoCtor == [status |-> "none", arg |-> NoArg]

SendIdle == vuState = "nil" /\ config = NoConfig /\ call = NoCall /\ ctor = NoCtor

NoSample ==
    [called |-> FALSE, minValue |-> 0, maxValue |-> 0, draw |-> Float(0, 0),
     fused |-> FALSE, value |-> Float(0, 0)]

NoCallback == [called |-> FALSE, n |-> 0, ok |-> FALSE]

PureIdle == sample = NoSample /\ callback = NoCallback

NoWrite ==
    [n |-> 0, value |-> Float(0, 0), seriesID |-> 0, timestamp |-> 0, fault |-> FALSE,
     out |-> <<>>]

ReuseIdle == wf = NoWrite

----------------------------------------------------------------------------
(* The client driven by a script: one TemplateSet, one generating call and *)
(* one call of store(), in either order                                    *)

Init ==
    /\ shape \in TemplateMaps
    /\ labelsTemplate = [k \in DOMAIN shape |-> TemplateText(shape[k])]
    /\ iterOrder = <<>>
    /\ status = "new"
    /\ compileErr = NoCompileErr
    /\ heap = <<>>
    /\ template = NoTemplates
    /\ gen = NoGen
    /\ sto = NoStore
    /\ EvalIdle
    /\ ConcIdle
    /\ SendIdle
    /\ PureIdle
    /\ ReuseIdle

\* precompileLabelTemplates(labelsTemplate), also the first half of
\* StoreFromTemplates
PrecompileLabelTemplates ==
    \E keys \in KeyOrders(DOMAIN labelsTemplate) :
        LET Returned(c) ==
                /\ iterOrder' = keys
                /\ status' = IF c.fault THEN "panic"
                             ELSE IF c.err # "" THEN "error" ELSE "compiled"
                /\ compileErr' = [err |-> c.err, errTemplate |-> c.errTemplate]
                /\ template' = c.template
                /\ heap' = IF c.fault \/ c.err # "" THEN heap
                           ELSE Append(heap, Zeros(LabelValueSize))
        IN  /\ status = "new"
            /\ Returned(compileLabelTemplates(labelsTemplate, keys, NewArray(heap)))
            /\ UNCHANGED <<labelsTemplate, shape, gen, sto, evalVars, concVars, sendVars, pureVars, wf>>

DrawSeqs(n) == [1..n -> Draws]

\* StoreFromPrecompiledTemplates(minValue, maxValue, timestamp, minSeriesID,
\* maxSeriesID, template) up to the compression of the generated bytes
StoreFromPrecompiledTemplates ==
    \E vt \in ValueTimes, minID \in MinSeriesIDs, cnt \in -1..MaxBatch :
      \E draws \in DrawSeqs(DrawCount(minID, minID + cnt)) :
        LET Returned(g) ==
                /\ heap' = g.h
                /\ template' = g.T
                /\ gen' = [called |-> TRUE,
                           values |-> [k \in 1..Len(draws) |->
                                          valueBetween(draws[k], vt[1], vt[2])],
                           minValue |-> vt[1], maxValue |-> vt[2], timestamp |-> vt[3],
                           minSeriesID |-> minID, maxSeriesID |-> minID + cnt,
                           fault |-> g.fault, buf |-> g.buf]
        IN  /\ status = "compiled"
            /\ ~gen.called
            /\ Returned(generateFromPrecompiledTemplates(heap, template, draws, vt[1],
                                                         vt[2], vt[3], minID, minID + cnt))
            /\ UNCHANGED <<labelsTemplate, shape, iterOrder, status, compileErr, sto,
                           evalVars, concVars, sendVars, pureVars, wf>>

\* the list equivalent to the generating call, when it has returned
EquivalentOfGen ==
    IF gen.called /\ ~gen.fault
    THEN {EquivalentList(shape, gen.values, gen.timestamp, gen.minSeriesID,
                         gen.maxSeriesID)}
    ELSE {}

NonDecreasing(q) == \A i, j \in DOMAIN q : i <= j => q[i] <= q[j]

\* Client.Store(ts) up to the compression of the marshalled bytes
StoreCall ==
    \E ts \in FixedLists \cup EquivalentOfGen :
      \E clock \in {q \in [1..SampleCount(ts) -> Clock] : NonDecreasing(q)} :
        LET Returned(r) ==
                sto' = [called |-> TRUE, input |-> ts, batch |-> r.batch,
                        data |-> r.data]
        IN  /\ status # "idle"
            /\ ~sto.called
            /\ Returned(Store(ts, clock))
            /\ UNCHANGED <<labelsTemplate, shape, iterOrder, status, compileErr, heap,
                           template, gen, evalVars, concVars, sendVars, pureVars, wf>>

Next ==
    \/ PrecompileLabelTemplates
    \/ StoreFromPrecompiledTemplates
    \/ StoreCall

Spec == Init /\ [][Next]_vars

----------------------------------------------------------------------------
(* The client sending through the transport: the script constructs the    *)
(* Client, may precompile its templates and makes one call of a store      *)
(* method                                                                  *)

\* what c.Argument(0) of new Client(...) may be: an object with any of the
\* keys of Config, or a value that is no object
ClientArgs ==
    { [NoArg EXCEPT !.object = TRUE, !.url = "http://mimir/push"],
      [NoArg EXCEPT !.object = TRUE, !.url = "http://mimir/push", !.timeout = "soon"],
      [NoArg EXCEPT !.object = TRUE, !.url = "http://[::1", !.timeout = "500ms",
                    !.user_agent = "loadgen/1"],
      [NoArg EXCEPT !.object = TRUE, !.url = "http://mimir/push",
                    !.user_agent = "loadgen/1", !.tenant_name = "team-a",
                    !.headers = (HdrHost :> "mimir.internal") @@ (KeyCustom :> "1")
                                @@ (HdrUserAgent :> "curl/8")
                                @@ (KeyVersionLower :> "1.0")
                                @@ (HdrContentType :> "text/plain")],
      [NoArg EXCEPT !.object = TRUE, !.url = "http://mimir/push",
                    !.headers = (KeyContentEncodingLower :> "gzip")],
      [NoArg EXCEPT !.object = TRUE, !.timeout = "500ms", !.user_agent = "loadgen/1"],
      NoArg }

\* a construction that keeps the caller's values as they are
xclientAsGiven(arg) ==
    IF ~arg.object THEN [status |-> "thrown", cfg |-> NoConfig]
    ELSE IF arg.url = "" THEN [status |-> "fatal", cfg |-> NoConfig]
    ELSE [status |-> "made",
          cfg |-> [Url |-> arg.url, UserAgent |-> arg.user_agent,
                   Timeout |-> arg.timeout, TenantName |-> arg.tenant_name,
                   Headers |-> arg.headers]]

\* RemoteWrite.xclient: rt.ExportTo fails on an argument that is no object
\* and the error is thrown; an empty url ends the process in log.Fatal
xclient(arg) ==
    IF ~arg.object THEN [status |-> "thrown", cfg |-> NoConfig]
    ELSE IF arg.url = "" THEN [status |-> "fatal", cfg |-> NoConfig]
    ELSE [status |-> "made",
          cfg |-> [Url |-> arg.url,
                   UserAgent |-> IF arg.user_agent = "" THEN "k6-remote-write/0.0.2"
                                 ELSE arg.user_agent,
                   Timeout |-> IF arg.timeout = "" THEN "10s" ELSE arg.timeout,
                   TenantName |-> arg.tenant_name,
                   Headers |-> arg.headers]]

InitStore ==
    /\ shape \in StoreMaps
    /\ labelsTemplate = [k \in DOMAIN shape |-> TemplateText(shape[k])]
    /\ iterOrder = <<>>
    /\ status = "new"
    /\ compileErr = NoCompileErr
    /\ heap = <<>>
    /\ template = NoTemplates
    /\ gen = NoGen
    /\ sto = NoStore
    /\ EvalIdle
    /\ ConcIdle
    /\ vuState \in {"nil", "set"}
    /\ config = NoConfig
    /\ call = NoCall
    /\ ctor = NoCtor
    /\ PureIdle
    /\ ReuseIdle

\* new Client(arg)
NewClient ==
    \E arg \in ClientArgs :
        LET Returned(r) ==
                /\ ctor' = [status |-> r.status, arg |-> arg]
                /\ config' = r.cfg
        IN  /\ ctor.status = "none"
            /\ Returned(xclient(arg))
            /\ UNCHANGED <<labelsTemplate, shape, iterOrder, status, compileErr, heap,
                           template, gen, sto, evalVars, concVars, vuState, call,
                           pureVars, wf>>

\* the record of a call that returned (or panicked with) r
Called(op, args, outcome, r, generated) ==
    [op |-> op, args |-> args, outcome |-> outcome, fault |-> r.fault, err |-> r.err,
     payload |-> r.payload, requests |-> r.requests, res |-> r.res,
     generated |-> generated]

\* client.store(ts)
ClientStore ==
    \E ts \in FixedLists, outcome \in MakeRequestOutcomes :
      \E clock \in {q \in [1..SampleCount(ts) -> Clock] : NonDecreasing(q)} :
        LET Returned(r) ==
                call' = Called("Store", [NoArgs EXCEPT !.ts = ts], outcome, r, NoGenerated)
        IN  /\ ctor.status = "made"
            /\ call = NoCall
            /\ Returned(store(vuState, config, Store(ts, clock).batch, outcome))
            /\ UNCHANGED <<labelsTemplate, shape, iterOrder, status, compileErr, heap,
                           template, gen, sto, evalVars, concVars, vuState, config,
                           ctor, pureVars, wf>>

\* client.storeGenerated(totalSeries, batches, batchSize, batch)
ClientStoreGenerated ==
    \E a \in GeneratedArgs, u \in Draws, now \in Clock, outcome \in MakeRequestOutcomes :
        LET Returned(r) ==
                call' = Called("StoreGenerated",
                               [NoArgs EXCEPT !.totalSeries = a[1], !.batches = a[2],
                                              !.batchSize = a[3], !.batch = a[4]],
                               outcome, r, r.generated)
        IN  /\ ctor.status = "made"
            /\ call = NoCall
            /\ Returned(storeGenerated(vuState, config, a[1], a[2], a[3], a[4],
                                       [k \in 1..Max(0, a[3]) |-> u], now, outcome))
            /\ UNCHANGED <<labelsTemplate, shape, iterOrder, status, compileErr, heap,
                           template, gen, sto, evalVars, concVars, vuState, config,
                           ctor, pureVars, wf>>

\* client.storeFromTemplates(minValue, maxValue, timestamp, minSeriesID,
\* maxSeriesID, labelsTemplate); the TemplateSet it compiles is dropped
\* when it returns
ClientStoreFromTemplates ==
    \E vt \in SentValueTimes, minID \in MinSeriesIDs, cnt \in 0..MaxBatch, u \in Draws,
       outcome \in MakeRequestOutcomes, keys \in KeyOrders(DOMAIN labelsTemplate) :
        LET Returned(r) ==
                call' = Called("StoreFromTemplates",
                               [NoArgs EXCEPT !.minValue = vt[1], !.maxValue = vt[2],
                                              !.timestamp = vt[3], !.minSeriesID = minID,
                                              !.maxSeriesID = minID + cnt,
                                              !.labelsTemplate = labelsTemplate],
                               outcome, r, NoGenerated)
        IN  /\ ctor.status = "made"
            /\ call = NoCall
            /\ Returned(storeFromTemplates(vuState, config, heap, labelsTemplate, keys,
                                           [k \in 1..DrawCount(minID, minID + cnt) |-> u],
                                           vt[1], vt[2], vt[3], minID, minID + cnt, outcome))
            /\ UNCHANGED <<labelsTemplate, shape, iterOrder, status, compileErr, heap,
                           template, gen, sto, evalVars, concVars, vuState, config,
                           ctor, pureVars, wf>>

\* client.storeFromPrecompiledTemplates(minValue, maxValue, timestamp,
\* minSeriesID, maxSeriesID, template) on the TemplateSet the script compiled
ClientStoreFromPrecompiledTemplates ==
    \E vt \in SentValueTimes, minID \in MinSeriesIDs, cnt \in 0..MaxBatch, u \in Draws,
       outcome \in MakeRequestOutcomes :
        LET Returned(r) ==
                /\ heap' = r.h
                /\ template' = r.T
                /\ call' = Called("StoreFromPrecompiledTemplates",
                                  [NoArgs EXCEPT !.minValue = vt[1], !.maxValue = vt[2],
                                                 !.timestamp = vt[3], !.minSeriesID = minID,
                                                 !.maxSeriesID = minID + cnt,
                                                 !.labelsTemplate = labelsTemplate],
                                  outcome, r, NoGenerated)
        IN  /\ ctor.status = "made"
            /\ status = "compiled"
            /\ call = NoCall
            /\ Returned(storeFromPrecompiled(vuState, config, heap, template,
                                             [k \in 1..DrawCount(minID, minID + cnt) |-> u],
                                             vt[1], vt[2], vt[3], minID, minID + cnt,
                                             outcome))
            /\ UNCHANGED <<labelsTemplate, shape, iterOrder, status, compileErr, gen, sto,
                           evalVars, concVars, vuState, config,
                           ctor, pureVars, wf>>

NextStore ==
    \/ NewClient
    \/ (ctor.status # "fatal" /\ PrecompileLabelTemplates)
    \/ ClientStore
    \/ ClientStoreGenerated
    \/ ClientStoreFromTemplates
    \/ ClientStoreFromPrecompiledTemplates

SpecStore == InitStore /\ [][NextStore]_vars

----------------------------------------------------------------------------
(* One TemplateSet compiled once and written from again and again, as the  *)
(* loop of generateFromPrecompiledTemplates and BenchmarkWriteFor do       *)

\* n bytes c
Rep(c, n) == [k \in 1..n |-> c]

\* templates whose names and values lie on both sides of 128 bytes, the
\* length from which a varint takes two bytes and the scratch slice grows
ReuseMaps ==
    { <<>>,
      (NameB :> ShDiv2) @@ (NameA :> ShMod3),
      (Rep(110, 130) :> Shape(Rep(118, 200), "none", <<>>, 0, <<>>))
          @@ (NameA :> Shape(Rep(112, 126), "id", <<>>, 0, <<>>)),
      (Rep(111, 128) :> ShId),
      (Rep(109, 127) :> Shape(Rep(112, 126), "div", <<>>, 2, <<>>)) }

\* value and timestamp of a call of writeFor
WriteSamples == {<<Float(0, 0), 0>>, <<Float(3, 1), 300>>}

WriteIDs == {5, 12, 13, 20}

\* bound of the inputs: the calls of writeFor on one TemplateSet
MaxWrites == 3

InitReuse ==
    /\ shape \in ReuseMaps
    /\ labelsTemplate = [k \in DOMAIN shape |-> TemplateText(shape[k])]
    /\ iterOrder = <<>>
    /\ status = "new"
    /\ compileErr = NoCompileErr
    /\ heap = <<>>
    /\ template = NoTemplates
    /\ gen = NoGen
    /\ sto = NoStore
    /\ EvalIdle
    /\ ConcIdle
    /\ SendIdle
    /\ PureIdle
    /\ ReuseIdle

\* template.writeFor(w, value, seriesID, timestamp) into an empty w
WriteFor ==
    \E s \in WriteSamples, seriesID \in WriteIDs :
        LET Returned(r) ==
                /\ heap' = r.h
                /\ template' = r.T
                /\ wf' = [n |-> wf.n + 1, value |-> s[1], seriesID |-> seriesID,
                          timestamp |-> s[2], fault |-> r.f.pc = "fault",
                          out |-> r.f.w]
        IN  /\ status = "compiled"
            /\ wf.n < MaxWrites
            /\ Returned(writeFor(heap, template, s[1], seriesID, s[2]))
            /\ UNCHANGED <<labelsTemplate, shape, iterOrder, status, compileErr, gen, sto,
                           evalVars, concVars, sendVars, pureVars>>

NextReuse ==
    \/ PrecompileLabelTemplates
    \/ WriteFor

SpecReuse == InitReuse /\ [][NextReuse]_vars

----------------------------------------------------------------------------
(* The two functions without state, each called once on its inputs         *)

\* minValue and maxValue of a call of valueBetween
ValueRange == -3..5

\* the draws of r.Float64() next to 1: the draws are multiples of 2^-53 in
\* [0, 1), the largest being 1 - 2^-53
TopDraws == {Near(1, 1), Near(1, 2), Near(1, 3)}

\* the status codes a response may carry, and numbers that are none
StatusCodes ==
    {-299, -200, -1, 0, 1, 2, 99, 100, 101, 199, 200, 201, 204, 250, 299, 300, 301,
     302, 400, 404, 499, 500, 503, 599, 2000, 20000}

\* a callback that takes every code from 200 on for a success
ResponseCallbackFrom200(n) == n >= 200

\* ResponseCallback(n)
ResponseCallback(n) == GoDiv(n, 100) = 2

InitPure ==
    /\ sample = NoSample
    /\ callback = NoCallback
    /\ heap = <<>>
    /\ ClientIdle
    /\ EvalIdle
    /\ ConcIdle
    /\ SendIdle
    /\ ReuseIdle

\* valueBetween(r, minVal, maxVal), the multiplication and the addition
\* rounded one after the other or fused, as the build has it
ValueBetween ==
    \E minVal \in ValueRange, maxVal \in ValueRange, u \in Draws \cup TopDraws,
       fused \in BOOLEAN :
        /\ ~sample.called
        /\ sample' = [called |-> TRUE, minValue |-> minVal, maxValue |-> maxVal,
                      draw |-> u, fused |-> fused,
                      value |-> IF fused THEN valueBetweenFused(u, minVal, maxVal)
                                ELSE valueBetween(u, minVal, maxVal)]
        /\ UNCHANGED <<labelsTemplate, shape, iterOrder, status, compileErr, heap,
                       template, gen, sto, evalVars, concVars, sendVars, callback, wf>>

\* ResponseCallback(n) on the status code of a response
CallResponseCallback ==
    \E n \in StatusCodes :
        /\ ~callback.called
        /\ callback' = [called |-> TRUE, n |-> n, ok |-> ResponseCallback(n)]
        /\ UNCHANGED <<labelsTemplate, shape, iterOrder, status, compileErr, heap,
                       template, gen, sto, evalVars, concVars, sendVars, sample, wf>>

NextPure ==
    \/ ValueBetween
    \/ CallResponseCallback

SpecPure == InitPure /\ [][NextPure]_vars

----------------------------------------------------------------------------
(* One template compiled to a generator that is then evaluated again and   *)
(* again, at series IDs in any order                                       *)

EvalShapes ==
    {ShLit, ShEmpty, ShId, ShIdId, ShDiv2, ShDivM2, ShMod3, ShMod2, ShDiv0, ShMod0,
     ShBadOpen, ShBadStar, ShBadNoClose, ShBadNoCloseMod, ShBadDivisor, ShBadModulus,
     ShBadNegMod, ShBadSpace, ShBadBraceBefore, ShBadModText}

EvalIDs == {-7, -2, -1, 0, 1, 2, 3, 5, 10, 12}

\* bound of the inputs: the evaluations made of one generator
MaxEvals == 3

InitEval ==
    /\ cg \in {[NoCg EXCEPT !.shape = sh, !.template = TemplateText(sh),
                            !.status = "new"] : sh \in EvalShapes}
    /\ ev = NoEv
    /\ nev = 0
    /\ heap = <<>>
    /\ ClientIdle
    /\ ConcIdle
    /\ SendIdle
    /\ PureIdle
    /\ ReuseIdle

\* compileTemplate(cg.template)
CompileTemplate ==
    LET Returned(c) ==
            cg' = [cg EXCEPT !.status = IF c.fault THEN "panic"
                                        ELSE IF c.err # "" THEN "error" ELSE "compiled",
                             !.err = c.err, !.gen = c.gen]
    IN  /\ cg.status = "new"
        /\ Returned(compileTemplate(cg.template))
        /\ UNCHANGED <<labelsTemplate, shape, iterOrder, status, compileErr, heap,
                       template, gen, sto, ev, nev, concVars, sendVars, pureVars, wf>>

\* generator.AppendByte(nil, seriesID)
Evaluate ==
    \E seriesID \in EvalIDs :
        LET Returned(r) ==
                /\ ev' = [called |-> TRUE, seriesID |-> seriesID, fault |-> r.fault,
                          out |-> Concat(r.chunks), before |-> cg.gen]
                /\ cg' = [cg EXCEPT !.gen = r.gen]
        IN  /\ cg.status = "compiled"
            /\ nev < MaxEvals
            /\ Returned(AppendByte(cg.gen, seriesID))
            /\ nev' = nev + 1
            /\ UNCHANGED <<labelsTemplate, shape, iterOrder, status, compileErr, heap,
                           template, gen, sto, concVars, sendVars, pureVars, wf>>

NextEval ==
    \/ CompileTemplate
    \/ Evaluate

SpecEval == InitEval /\ [][NextEval]_vars

----------------------------------------------------------------------------
(* Two calls of writeFor that run at the same time, statement by           *)
(* statement, on one TemplateSet or on one each                            *)

ConcMaps == { (NameB :> ShId), (NameB :> ShDiv2) }

\* <<value, seriesID, timestamp>> of the first caller, and of the second
ConcFirst  == {<<Float(3, 1), 9, 300>>}
ConcSecond == {<<Float(1, 0), 10, 1>>, <<Float(3, 1), -3, 300>>}

InitConc ==
    /\ shape \in ConcMaps
    /\ labelsTemplate = [k \in DOMAIN shape |-> TemplateText(shape[k])]
    /\ iterOrder = SortedKeys(DOMAIN shape)
    /\ status = "idle"
    /\ compileErr = NoCompileErr
    /\ template = NoTemplates
    /\ gen = NoGen
    /\ sto = NoStore
    /\ EvalIdle
    /\ SendIdle
    /\ PureIdle
    /\ ReuseIdle
    /\ heap = <<Zeros(LabelValueSize), Zeros(LabelValueSize)>>
    /\ templates =
         <<compileLabelTemplates(labelsTemplate, iterOrder, NewArray(<<>>)).template,
           compileLabelTemplates(labelsTemplate, iterOrder,
                                 NewArray(<<Zeros(LabelValueSize)>>)).template>>
    /\ uses \in {<<1, 1>>, <<1, 2>>}
    /\ \E a \in ConcFirst, b \in ConcSecond :
         frames = <<NewFrame(a[1], a[2], a[3]), NewFrame(b[1], b[2], b[3])>>

\* caller c executes the next statement of its writeFor
Step ==
    \E c \in DOMAIN frames :
        LET Stepped(r) ==
                /\ heap' = r.h
                /\ templates' = [templates EXCEPT ![uses[c]] = r.T]
                /\ frames' = [frames EXCEPT ![c] = r.f]
        IN  /\ Running(frames[c])
            /\ Stepped(writeForStep(heap, templates[uses[c]], frames[c]))
            /\ UNCHANGED <<labelsTemplate, shape, iterOrder, status, compileErr,
                           template, gen, sto, evalVars, uses, sendVars, pureVars, wf>>

NextConc == Step

SpecConc == InitConc /\ [][NextConc]_vars

\* what caller c's writeFor writes when it runs alone on a TemplateSet
\* compiled for it
SoloOutput(c) ==
    writeFor(<<Zeros(LabelValueSize)>>,
             compileLabelTemplates(labelsTemplate, iterOrder, 1).template,
             frames[c].value, frames[c].seriesID, frames[c].timestamp).f.w

----------------------------------------------------------------------------
(* Properties of the client (Spec)                                         *)

GenReturned == gen.called /\ ~gen.fault

GenNonEmpty == GenReturned /\ gen.minSeriesID < gen.maxSeriesID

\* the explicit list the generating call stands for
GenList ==
    EquivalentList(shape, gen.values, gen.timestamp, gen.minSeriesID, gen.maxSeriesID)

Named(ls) == [j \in 1..Len(ls) |-> [Name |-> ls[j].Name, Value |-> ls[j].Value]]

\* the labels a decoder reads from one series record
RecordLabels(b) ==
    LET Of(d) == IF d.ok THEN Named(d.Labels) ELSE <<Malformed>>
    IN  Of(UnmarshalTimeSeries(b))

CompiledNames ==
    [k \in 1..Len(template.compiledTemplates) |-> template.compiledTemplates[k].name]

\* C1: the bytes a generating call returns are those the protobuf
\* marshaller emits for a WriteRequest holding the same series, each with
\* its labels in sorted-name order and one sample of that value and timestamp
C1_ByteIdentical == GenReturned => gen.buf = Marshal(GenList)

\* C2: decoded, the bytes of a generating call show the same series, field
\* for field, as the request the generic path marshals when store() is given
\* the equivalent explicit list
C2_SameFieldsAsStore ==
    (GenReturned /\ sto.called /\ sto.input = GenList)
        => Unmarshal(gen.buf) = Unmarshal(sto.data)

\* C5: the compiled TemplateSet lists the label names of the map in strictly
\* ascending byte-wise order, whatever the iteration order was, and every
\* series generated from it carries its labels in that order
C5_SortedLabels ==
    /\ status = "compiled" =>
          /\ {CompiledNames[k] : k \in DOMAIN CompiledNames} = DOMAIN labelsTemplate
          /\ Len(CompiledNames) = Cardinality(DOMAIN labelsTemplate)
          /\ \A k \in 1..(Len(CompiledNames) - 1) :
                StrLess(CompiledNames[k], CompiledNames[k + 1])
    /\ GenReturned =>
          LET SameOrder(d) ==
                /\ d.ok
                /\ \A k \in 1..Len(d.Timeseries) :
                      [j \in 1..Len(d.Timeseries[k].Labels) |->
                          d.Timeseries[k].Labels[j].Name] = CompiledNames
          IN  SameOrder(Unmarshal(gen.buf))

\* a generating call has returned two or more series, each of several
\* labels, from a map that was iterated out of order
C5_Witness ==
    /\ status = "compiled"
    /\ Len(iterOrder) >= 2
    /\ StrLess(iterOrder[2], iterOrder[1])
    /\ GenReturned
    /\ gen.maxSeriesID - gen.minSeriesID >= 2

\* C13: compileLabelTemplates returns either a TemplateSet with one entry
\* per label of the map and no error, or no TemplateSet and an error that
\* names the template at which the iteration of the map stopped, the first
\* one that did not compile; it returns the error whenever one of the
\* templates does not compile
C13_AllOrNothing ==
    LET Fails(name)  == compileTemplate(labelsTemplate[name]).err # ""
        Panics(name) == compileTemplate(labelsTemplate[name]).fault
    IN  status \in {"compiled", "error", "panic"} =>
          /\ status = "compiled" =>
                /\ compileErr = NoCompileErr
                /\ Len(template.compiledTemplates) = Cardinality(DOMAIN labelsTemplate)
                /\ \A name \in DOMAIN labelsTemplate : ~Fails(name) /\ ~Panics(name)
          /\ status = "error" =>
                /\ template = NoTemplates
                /\ compileErr.err # ""
                /\ \E p \in 1..Len(iterOrder) :
                      /\ Fails(iterOrder[p])
                      /\ compileErr.errTemplate = labelsTemplate[iterOrder[p]]
                      /\ \A q \in 1..(p - 1) :
                            ~Fails(iterOrder[q]) /\ ~Panics(iterOrder[q])
          /\ status = "panic" => template = NoTemplates
          /\ ((\E name \in DOMAIN labelsTemplate : Fails(name))
               /\ \A name \in DOMAIN labelsTemplate : ~Panics(name)) => status = "error"

\* the compilation has stopped with an error at the second template of the
\* iteration, after one that compiles
C13_Witness ==
    /\ status = "error"
    /\ Len(iterOrder) = 2
    /\ compileTemplate(labelsTemplate[iterOrder[1]]).err = ""
    /\ compileErr.errTemplate = labelsTemplate[iterOrder[2]]

\* C6: for minSeriesID < maxSeriesID the batch is exactly
\* maxSeriesID - minSeriesID records, each framed as 0x0a and the varint
\* length of that record, the k-th carrying the labels of the templates
\* evaluated at minSeriesID + k - 1
C6_OneRecordPerID ==
    GenNonEmpty =>
        LET Framed(recs) ==
              /\ recs.ok
              /\ Len(recs.fs) = gen.maxSeriesID - gen.minSeriesID
              /\ gen.buf = Concat([k \in 1..Len(recs.fs) |->
                                     <<10>> \o Varint(Len(recs.fs[k].val))
                                            \o recs.fs[k].val])
              /\ \A k \in 1..Len(recs.fs) :
                    /\ recs.fs[k].num = 1
                    /\ recs.fs[k].wt = 2
                    /\ RecordLabels(recs.fs[k].val) = GenList[k].Labels
        IN  Framed(Fields(gen.buf, 1, <<>>))

\* a generating call has returned the longest range, with a label that
\* changes from one ID to the next
C6_Witness ==
    /\ GenNonEmpty
    /\ gen.maxSeriesID - gen.minSeriesID = MaxBatch
    /\ \E name \in DOMAIN shape : shape[name].op = "id"

\* C19: the series the generic path converts has the labels of its input
\* (names, values, count, order) and its samples (values, count, order); a
\* sample's timestamp is the input's when that is not zero, and otherwise a
\* reading of the clock in milliseconds, which is not zero
C19_ConvertedSeries ==
    sto.called =>
        /\ Len(sto.batch) = Len(sto.input)
        /\ \A k \in 1..Len(sto.input) :
              LET in  == sto.input[k]
                  out == sto.batch[k]
              IN  /\ Named(out.Labels) = Named(in.Labels)
                  /\ Len(out.Samples) = Len(in.Samples)
                  /\ \A j \in 1..Len(in.Samples) :
                        /\ out.Samples[j].Value = in.Samples[j].Value
                        /\ in.Samples[j].Timestamp # 0 =>
                              out.Samples[j].Timestamp = in.Samples[j].Timestamp
                        /\ in.Samples[j].Timestamp = 0 =>
                              /\ out.Samples[j].Timestamp \in Clock
                              /\ out.Samples[j].Timestamp # 0

\* store() has converted a series of two labels whose samples carry
\* timestamp 0 and a timestamp of their own
C19_Witness ==
    /\ sto.called
    /\ \E k \in 1..Len(sto.input) :
          /\ Len(sto.input[k].Labels) = 2
          /\ \E i, j \in 1..Len(sto.input[k].Samples) :
                /\ sto.input[k].Samples[i].Timestamp = 0
                /\ sto.batch[k].Samples[i].Timestamp \in Clock
                /\ sto.input[k].Samples[j].Timestamp # 0

C7_EmptyRange ==
    (gen.called /\ gen.maxSeriesID <= gen.minSeriesID)
        => (~gen.fault /\ gen.buf = <<>>)

----------------------------------------------------------------------------
(* Properties of the calls made through the transport (SpecStore)          *)

Generated == call.op = "StoreGenerated"

\* the batch number is one of 1..batches
BatchInRange == 1 <= call.args.batch /\ call.args.batch <= call.args.batches

\* batches of batchSize series make up totalSeries exactly
DividesEvenly == call.args.batches * call.args.batchSize = call.args.totalSeries

\* the template text t does not compile
TemplateFails(t) ==
    LET Of(c) == c.fault \/ c.err # ""
    IN  Of(compileTemplate(t))

\* the call failed one of its preconditions before anything was encoded
PreconditionFailed ==
    \/ call.op # "none" /\ vuState = "nil"
    \/ /\ call.op = "StoreFromTemplates"
       /\ \E name \in DOMAIN call.args.labelsTemplate :
             TemplateFails(call.args.labelsTemplate[name])
    \/ Generated /\ call.args.totalSeries # 0 /\ ~(BatchInRange /\ DividesEvenly)

\* the call returned an error and left nothing behind it
FailedClean ==
    /\ ~call.fault
    /\ call.err # ""
    /\ call.payload = NoPayload
    /\ call.requests = <<>>

\* C14: a store call that fails a precondition before encoding (the batch
\* preconditions of StoreGenerated, a label template that does not compile,
\* a nil VU state) returns an error, builds no payload and makes no
\* transport request
C14_FailsBeforeEncoding == PreconditionFailed => FailedClean

\* what the code tests before it encodes: the two checks of generateSeries,
\* the compilation of the templates, the VU state
RejectedBeforeEncoding ==
    \/ call.op # "none" /\ ~call.fault /\ vuState = "nil"
    \/ /\ call.op = "StoreFromTemplates"
       /\ ~call.fault
       /\ \E name \in DOMAIN call.args.labelsTemplate :
             TemplateFails(call.args.labelsTemplate[name])
    \/ Generated /\ call.generated.err # ""

\* a call the code rejects before encoding returns an error, builds no
\* payload and makes no transport request
RejectedCallsFailClean == RejectedBeforeEncoding => FailedClean

\* C15: a store call makes at most one transport request, and when that
\* request fails the call returns its error and has made exactly one request
C15_AtMostOneRequest ==
    call.op # "none" =>
        /\ Len(call.requests) <= 1
        /\ (call.requests # <<>> /\ call.outcome.err # "") =>
              /\ ~call.fault
              /\ call.err = "remote-write request failed: " \o call.outcome.err
              /\ call.res = NoResponse
              /\ Len(call.requests) = 1

\* a generated batch was sent from precompiled templates and the request
\* timed out
C15_Witness ==
    /\ call.op = "StoreFromPrecompiledTemplates"
    /\ call.requests # <<>>
    /\ call.outcome.err = "request timeout"
    /\ call.err # ""

\* C16: with totalSeries # 0, generateSeries returns an error whenever
\* batches * batchSize # totalSeries
C16_UnevenRejected ==
    (Generated /\ call.args.totalSeries # 0 /\ ~DividesEvenly) =>
        /\ ~call.generated.fault
        /\ call.generated.err # ""

\* C17: with totalSeries # 0, generateSeries returns an error and no series
\* whenever the batch number is outside 1..batches
C17_BatchOutOfRange ==
    (Generated /\ call.args.totalSeries # 0 /\ ~BatchInRange) =>
        /\ ~call.generated.fault
        /\ call.generated.err # ""
        /\ call.generated.series = <<>>

\* C18: with totalSeries = 0, generateSeries returns no series and no
\* error, whatever batches, batchSize and batch are
C18_ZeroTotal ==
    (Generated /\ call.args.totalSeries = 0) =>
        /\ ~call.generated.fault
        /\ call.generated.err = ""
        /\ call.generated.series = <<>>

\* storeGenerated was called with totalSeries = 0 and a batch number above
\* batches, and returned no error from the generation
C18_Witness ==
    /\ Generated
    /\ call.args.totalSeries = 0
    /\ call.args.batch > call.args.batches
    /\ call.args.batchSize # 0
    /\ call.generated.err = ""

\* the values of the labels of series s that are named name
LabelValues(s, name) ==
    LET Hit(l) == l.Name = name
        hits == SelectSeq(s.Labels, Hit)
    IN  [j \in 1..Len(hits) |-> hits[j].Value]

\* the series ID a generated series states in its series_id label
StatedID(s) == Atoi(LabelValues(s, SeriesIdLabel)[1]).n

\* the IDs of batch number b of the call's totalSeries, batches, batchSize
BatchIDs(b) ==
    LET Of(g) == {StatedID(g.series[k]) : k \in 1..Len(g.series)}
    IN  Of(generateSeries(call.args.totalSeries, call.args.batches, call.args.batchSize,
                          b, [k \in 1..Max(0, call.args.batchSize) |-> Float(0, 0)], 0))

\* C29: for batches >= 1, totalSeries = batches * batchSize and batch in
\* 1..batches, generateSeries returns batchSize series with the IDs
\* batchSize * (batch - 1) .. batchSize * batch - 1 in ascending order, each
\* with series_id = its ID and __name__ = "k6_generated_metric_" and its
\* ID; the batches 1..batches have no ID in common and hold 0..totalSeries-1
C29_BatchPartition ==
    (Generated /\ call.args.batches >= 1 /\ DividesEvenly /\ BatchInRange) =>
        LET g    == call.generated
            size == call.args.batchSize
            first == call.args.batchSize * (call.args.batch - 1)
        IN  /\ ~g.fault
            /\ g.err = ""
            /\ Len(g.series) = size
            /\ \A k \in 1..Len(g.series) :
                  /\ Len(LabelValues(g.series[k], SeriesIdLabel)) = 1
                  /\ Atoi(LabelValues(g.series[k], SeriesIdLabel)[1]).ok
                  /\ StatedID(g.series[k]) = first + k - 1
                  /\ LabelValues(g.series[k], SeriesIdLabel) = <<FormatInt(first + k - 1)>>
                  /\ LabelValues(g.series[k], MetricNameLabel)
                        = <<MetricPrefix \o FormatInt(first + k - 1)>>
            /\ \A b1, b2 \in 1..call.args.batches :
                  b1 # b2 => BatchIDs(b1) \cap BatchIDs(b2) = {}
            /\ UNION {BatchIDs(b) : b \in 1..call.args.batches}
                  = 0..(call.args.totalSeries - 1)

\* the last of six batches of two series was generated, IDs 10 and 11
C29_Witness ==
    /\ Generated
    /\ DividesEvenly
    /\ call.args.batches >= 2
    /\ call.args.batch = call.args.batches
    /\ Len(call.generated.series) >= 2
    /\ StatedID(call.generated.series[1]) >= 10

\* C30: every series generateSeries produces has its labels in ascending
\* order of label name
C30_GeneratedLabelsSorted ==
    Generated =>
        \A k \in 1..Len(call.generated.series) :
            \A j \in 1..(Len(call.generated.series[k].Labels) - 1) :
                StrLess(call.generated.series[k].Labels[j].Name,
                        call.generated.series[k].Labels[j + 1].Name)

\* C24: a Client that construction returned has the caller's URL, which is
\* not empty, the caller's user agent or "k6-remote-write/0.0.2" when none
\* was given, and the caller's timeout or "10s" when none was given, neither
\* of them empty; a construction with an empty URL ends in log.Fatal and
\* leaves no Client
C24_ClientComplete ==
    /\ ctor.status = "made" =>
          /\ config.Url # "" /\ config.Url = ctor.arg.url
          /\ config.UserAgent # ""
          /\ config.UserAgent = (IF ctor.arg.user_agent = "" THEN "k6-remote-write/0.0.2"
                                 ELSE ctor.arg.user_agent)
          /\ config.Timeout # ""
          /\ config.Timeout = (IF ctor.arg.timeout = "" THEN "10s" ELSE ctor.arg.timeout)
    /\ (ctor.status # "none" /\ ctor.arg.object /\ ctor.arg.url = "") =>
          ctor.status = "fatal" /\ config = NoConfig /\ call = NoCall
    /\ ctor.status # "made" => config = NoConfig /\ call = NoCall

\* a Client made from an argument with neither user agent nor timeout, that
\* was then used for a call
C24_Witness ==
    /\ ctor.status = "made"
    /\ ctor.arg.user_agent = ""
    /\ ctor.arg.timeout = ""
    /\ call.op # "none"

\* a construction that ended in log.Fatal
C24_FatalReached == ctor.status = "fatal"

\* the values of header name of request r, none when it is absent
HeaderValues(r, name) == IF name \in DOMAIN r.Header THEN r.Header[name] ELSE <<>>

\* the fixed headers of request r have their fixed values and no other
FixedHeadersOnly(r) ==
    /\ HeaderValues(r, HdrContentEncoding) = <<"snappy">>
    /\ HeaderValues(r, HdrContentType) = <<"application/x-protobuf">>
    /\ HeaderValues(r, HdrUserAgent) = <<config.UserAgent>>
    /\ HeaderValues(r, HdrRemoteWriteVersion) = <<"0.0.2">>

\* C22: every request carries each fixed header (Content-Encoding,
\* Content-Type, User-Agent, X-Prometheus-Remote-Write-Version) with its
\* fixed value as the only value, whatever headers the caller configured,
\* and a caller's Host header is the host of the request
C22_FixedHeadersWin ==
    \A k \in 1..Len(call.requests) :
        /\ FixedHeadersOnly(call.requests[k])
        /\ HdrHost \in DOMAIN config.Headers =>
              call.requests[k].Host = config.Headers[HdrHost]

----------------------------------------------------------------------------
(* Properties of a TemplateSet that is reused (SpecReuse)                  *)

\* what writeFor writes for the last call's arguments from a TemplateSet
\* compiled afresh from the same templates
FreshWrite ==
    LET Written(c) == writeFor(<<Zeros(LabelValueSize)>>, c.template, wf.value,
                               wf.seriesID, wf.timestamp)
    IN  Written(compileLabelTemplates(labelsTemplate, iterOrder, 1))

\* C25: whatever calls of writeFor went before on the TemplateSet, a call
\* writes the bytes that a freshly compiled TemplateSet writes for the same
\* value, seriesID and timestamp: the scratch slice, its length and the
\* division memos left behind change nothing
C25_ReuseEqualsFresh ==
    wf.n > 0 =>
        LET Same(r) == (r.f.pc = "fault") = wf.fault /\ r.f.w = wf.out
        IN  Same(FreshWrite)

\* a second or later call on a TemplateSet with a division memo whose scratch
\* slice was replaced by a grown one in an earlier call
C25_Witness ==
    /\ wf.n >= 2
    /\ ~wf.fault
    /\ template.labelValue.arr # 1
    /\ \E k \in 1..Len(template.compiledTemplates) :
          /\ template.compiledTemplates[k].generator.kind = "div"
          /\ template.compiledTemplates[k].generator.memoizeValue * 2 \in
                {wf.seriesID, wf.seriesID - 1}

\* the series of shape map sm at seriesID with every length prefix the exact
\* count of the bytes that follow it
ExactSeries(sm, value, seriesID, timestamp) ==
    LET names == SortedKeys(DOMAIN sm)
        Label(name, v) == <<10>> \o Varint(Len(name)) \o name
                          \o <<18>> \o Varint(Len(v)) \o v
        Prefixed(tag, payload) == <<tag>> \o Varint(Len(payload)) \o payload
    IN  Concat([k \in 1..Len(names) |->
                   Prefixed(10, Label(names[k], ShapeValue(sm[names[k]], seriesID)))])
        \o Prefixed(18, <<9>> \o Float64LE(value) \o <<16>> \o Varint(timestamp))

\* C26: writeFor writes every label name and generated value in full, of
\* whatever length, and every length prefix (label submessage, name, value,
\* sample submessage) is the exact number of bytes that follow it
C26_LengthsExact ==
    wf.n > 0 /\ ~wf.fault =>
        wf.out = ExactSeries(shape, wf.value, wf.seriesID, wf.timestamp)

\* a call that wrote a name of 128 bytes or more and a value of 128 bytes or
\* more, whose length prefixes take two bytes
C26_Witness ==
    /\ wf.n > 0
    /\ ~wf.fault
    /\ \E name \in DOMAIN shape :
          /\ Len(name) >= 128
          /\ Len(ShapeValue(shape[name], wf.seriesID)) >= 128
    /\ \E name \in DOMAIN shape : Len(ShapeValue(shape[name], wf.seriesID)) = 127
    /\ Len(wf.out) > 128

----------------------------------------------------------------------------
(* Properties of the functions without state (SpecPure)                    *)

\* C21: for minValue < maxValue the value of a sample lies in
\* [minValue, maxValue): minValue <= v and v < maxValue
C21_ValueInRange ==
    (sample.called /\ sample.minValue < sample.maxValue) =>
        /\ FloatGeqInt(sample.value, sample.minValue)
        /\ FloatLessInt(sample.value, sample.maxValue)

\* C23: the response callback reports success for the status code n
\* exactly when 200 <= n <= 299
C23_SuccessIs2xx ==
    callback.called => (callback.ok <=> (200 <= callback.n /\ callback.n <= 299))

\* the callback has reported success for 299, the last code of the range
C23_Witness == callback.called /\ callback.n = 299 /\ callback.ok

----------------------------------------------------------------------------
(* Properties of one generator (SpecEval)                                  *)

\* C8: a generator compiled from pre ++ "${series_id/N}" ++ post, N # 0,
\* returns pre ++ decimal(q) ++ post at every evaluation, q being seriesID / N
\* truncated toward zero, whatever the evaluations before it were
C8_DivQuotient ==
    (ev.called /\ cg.shape.op = "div" /\ cg.shape.n # 0) =>
        LET a == ev.seriesID
            b == cg.shape.n
            q == CHOOSE x \in (-Abs(a))..Abs(a) :
                    /\ Abs(a - x * b) < Abs(b)
                    /\ (a - x * b = 0 \/ (a - x * b > 0) = (a > 0))
        IN  /\ ~ev.fault
            /\ ev.out = cg.shape.pre \o FormatInt(q) \o cg.shape.post

\* an evaluation at a negative ID has replaced the memo of another quotient
C8_Witness ==
    /\ ev.called
    /\ cg.shape.op = "div"
    /\ ~ev.fault
    /\ ev.seriesID < 0
    /\ ~ev.before.memoize.isNil
    /\ ev.before.memoizeValue # cg.gen.memoizeValue

\* C9: a generator compiled from pre ++ "${series_id%N}" ++ post, N >= 1,
\* returns pre ++ decimal(r) ++ post at every non-negative seriesID, r being
\* the residue of seriesID modulo N in 0..N-1
C9_ModResidue ==
    (ev.called /\ cg.shape.op = "mod" /\ cg.shape.n >= 1 /\ ev.seriesID >= 0) =>
        /\ ~ev.fault
        /\ \E r \in 0..(cg.shape.n - 1) :
              /\ (ev.seriesID - r) % cg.shape.n = 0
              /\ ev.out = cg.shape.pre \o FormatInt(r) \o cg.shape.post

\* an evaluation at an ID beyond the modulus, with a residue other than 0
C9_Witness ==
    /\ ev.called
    /\ cg.shape.op = "mod"
    /\ ~ev.fault
    /\ cg.shape.n >= 2
    /\ ev.seriesID > cg.shape.n
    /\ ev.seriesID % cg.shape.n # 0

\* C10: a generator compiled from a template whose first "${series_id" is
\* "${series_id}" returns the text before it, the decimal seriesID and all
\* the text after it as written; one compiled from a template without
\* "${series_id" returns the template
C10_IdSplice ==
    ev.called =>
        /\ cg.shape.op = "id" =>
              /\ ~ev.fault
              /\ ev.out = cg.shape.pre \o FormatInt(ev.seriesID) \o cg.shape.post
        /\ cg.shape.op = "none" => (~ev.fault /\ ev.out = cg.template)

\* an evaluation of "${series_id}${series_id}" at a negative ID
C10_Witness ==
    /\ ev.called
    /\ cg.shape = ShIdId
    /\ ev.seriesID < 0
    /\ ev.out # <<>>

\* C11: a template in which the first "${series_id" is followed by a
\* character other than '}', '/' and '%' compiles to the error "unsupported
\* template", one in which it is followed by '/' or '%' and no '}' comes
\* after that to the error "no closing bracket in template", and neither
\* to a generator
C11_RejectedForms ==
    LET t  == cg.template
        at == Index(cg.template, SeriesIdOpen) + Len(SeriesIdOpen) + 1
    IN  (cg.status # "new" /\ Index(t, SeriesIdOpen) # -1 /\ at <= Len(t)) =>
            /\ t[at] \notin {CloseBrace, Slash, Percent} =>
                  /\ cg.status = "error"
                  /\ cg.err = "unsupported template"
                  /\ cg.gen = NoGenerator
            /\ (t[at] \in {Slash, Percent} /\ \A k \in at..Len(t) : t[k] # CloseBrace) =>
                  /\ cg.status = "error"
                  /\ cg.err = "no closing bracket in template"
                  /\ cg.gen = NoGenerator

\* "}${series_id/6", whose only '}' stands before the operator, has been
\* rejected for its missing bracket
C11_Witness ==
    /\ cg.status = "error"
    /\ cg.err = "no closing bracket in template"
    /\ cg.template[1] = CloseBrace

\* C12: a template whose text between the '/' or '%' and the next '}' is
\* not a base-10 integer compiles to an error of the category "can't parse
\* divisor", in the division form as in the modulo form
C12_ParseDivisorError ==
    LET t  == cg.template
        at == Index(cg.template, SeriesIdOpen) + Len(SeriesIdOpen) + 1
        closing == {k \in (at + 1)..Len(t) : t[k] = CloseBrace}
        close == CHOOSE k \in closing : \A j \in closing : k <= j
    IN  (/\ cg.status # "new"
         /\ Index(t, SeriesIdOpen) # -1
         /\ at <= Len(t)
         /\ t[at] \in {Slash, Percent}
         /\ closing # {}
         /\ ~Atoi(SubSeq(t, at + 1, close - 1)).ok) =>
            /\ cg.status = "error"
            /\ cg.err = "can't parse divisor of the module operator"
            /\ cg.gen = NoGenerator

\* C27: for every template text compileTemplate returns a generator and no
\* error, or an error and no generator; it never panics
C27_NeverFaults ==
    cg.status \notin {"idle", "new"} =>
        \/ cg.status = "compiled" /\ cg.err = "" /\ cg.gen # NoGenerator
        \/ cg.status = "error" /\ cg.err # "" /\ cg.gen = NoGenerator

\* C28: a generator that compileTemplate returned with no error completes
\* every evaluation at a series ID >= 0 without a panic
C28_EvaluationCompletes ==
    (ev.called /\ ev.seriesID >= 0) => ~ev.fault

----------------------------------------------------------------------------
(* Properties of concurrent callers (SpecConc)                             *)

InBody(c) == frames[c].pc # "L439"

\* C3: two calls of writeFor on the same TemplateSet work in the same
\* scratch array, the one the TemplateSet holds, so that what one call has
\* put there is overwritten by the other
C3_SharedScratch ==
    \A c \in DOMAIN frames, d \in DOMAIN frames :
        (uses[c] = uses[d] /\ InBody(c) /\ InBody(d)) =>
            /\ frames[c].labelValue.arr = frames[d].labelValue.arr
            /\ frames[c].labelValue.arr = templates[uses[c]].labelValue.arr

\* the first caller, sharing its TemplateSet with the second, has returned
\* bytes other than those it writes alone
C3_Witness ==
    /\ uses[1] = uses[2]
    /\ frames[1].pc = "done"
    /\ frames[1].w # SoloOutput(1)

\* C4: two callers that each hold a TemplateSet compiled for them share no
\* scratch array, and each returns what it writes alone, however their
\* statements interleave
C4_OwnTemplateSet ==
    uses[1] # uses[2] =>
        /\ templates[uses[1]].labelValue.arr # templates[uses[2]].labelValue.arr
        /\ \A c \in DOMAIN frames :
              /\ frames[c].pc # "fault"
              /\ InBody(c) => frames[c].labelValue.arr = templates[uses[c]].labelValue.arr
              /\ frames[c].pc = "done" => frames[c].w = SoloOutput(c)

\* both callers, each on its own TemplateSet, have returned
C4_Witness ==
    /\ uses[1] # uses[2]
    /\ frames[1].pc = "done"
    /\ frames[2].pc = "done"

====
